---- MODULE Spec2Model ----
(***************************************************************************)
(* Model of the disease/symptom data pipeline of PRI2025 (milestone1):     *)
(*   - the Index Builder, generate_jsons of src/convert_to_json.py;        *)
(*   - the Dataset Merger, merge_datasets_task, in its DuckDB form         *)
(*     (src/data_preparation_and_cleaning.py) and in its polars form with  *)
(*     attribute backfill (dags/data_prep_alternative.py);                 *)
(*   - the Source Adapters, the prepare_*_task functions;                  *)
(*   - the binary matrix converter (src/simple_binary_converter.py);       *)
(*   - the task scheduling of the DAG 'data_preparation_pipeline'          *)
(*     (dags/data_prep_dag.py) and of run_all_tasks                        *)
(*     (dags/data_prep_and_clean_airflow.py).                              *)
(* Strings are sequences of one-character strings, so that strip, lower,   *)
(* replace and split are computed as the code computes them.               *)
(***************************************************************************)
EXTENDS Integers, Sequences, FiniteSets, TLC

VARIABLES
    runs,             \* number of runs of the script started so far
    script,           \* which pipeline script runs: "src" or "alt"
    run_pc,           \* position of the script's __main__ block
    clean,            \* data/clean: file name -> table
    prepared,         \* data/prepared: file name -> table
    final,            \* data/final: file name -> table
    pc,               \* position of generate_jsons: "idle", "rows", "done"
    next_row,         \* index of the next row the csv reader yields
    symptom_dict,     \* symptom key -> sequence of [disease, ref] (insertion order)
    heap,             \* ref -> disease_info dict (dicts are shared by reference)
    disease_dict,     \* disease -> accumulated attributes
    processed,        \* data/processed: file name -> written index
    csv_in,           \* the converter's input file: its lines, header first
    csv_out,          \* the converter's output file: the rows written so far
    conv_pc,          \* position of convert_binary_to_symptoms_simple
    conv_next,        \* index of the next line the csv reader yields
    module,           \* which task file runs: the DAG file or the task script
    task_state,       \* task -> state of its task instance
    task_pc,          \* task -> index of its callable's next file operation
    try_number,       \* task -> number of times the task was started
    loaded,           \* task -> path -> the file as the task has read it
    data_dir          \* the data folder: path -> file

vars == <<runs, script, run_pc, clean, prepared, final, pc, next_row,
          symptom_dict, heap, disease_dict, processed,
          csv_in, csv_out, conv_pc, conv_next,
          module, task_state, task_pc, try_number, loaded, data_dir>>

dag_vars == <<module, task_state, task_pc, try_number, loaded, data_dir>>

conv_vars == <<csv_in, csv_out, conv_pc, conv_next>>

idx_vars == <<pc, next_row, symptom_dict, heap, disease_dict, processed>>

run_vars == <<runs, script, run_pc, clean, prepared, final>>

\* a null cell of a table (None in Python): a value that is no string
NULL == <<"NULL">>

EmptyMap == [x \in {} |-> 0]

MergedFile == "merged_disease_symptom_list.csv"

-----------------------------------------------------------------------------
(* Strings *)

E == <<>>

IsSpace(c) == c \in {" ", "\t", "\n"}

LowerChar(c) ==
    CASE c = "A" -> "a"
      [] c = "B" -> "b"
      [] c = "C" -> "c"
      [] c = "E" -> "e"
      [] c = "F" -> "f"
      [] c = "N" -> "n"
      [] c = "O" -> "o"
      [] c = "R" -> "r"
      [] c = "S" -> "s"
      [] c = "T" -> "t"
      [] c = "U" -> "u"
      [] c = "Y" -> "y"
      [] OTHER -> c

\* code points of the characters the model uses (Python compares by code point)
CharCode(c) ==
    CASE c = "\t" -> 9
      [] c = "\n" -> 10
      [] c = " " -> 32
      [] c = "\"" -> 34
      [] c = "," -> 44
      [] c = "." -> 46
      [] c = "0" -> 48
      [] c = "1" -> 49
      [] c = "A" -> 65
      [] c = "B" -> 66
      [] c = "C" -> 67
      [] c = "F" -> 70
      [] c = "T" -> 84
      [] c = "Y" -> 89
      [] c = "_" -> 95
      [] c = "a" -> 97
      [] c = "b" -> 98
      [] c = "c" -> 99
      [] c = "e" -> 101
      [] c = "f" -> 102
      [] c = "h" -> 104
      [] c = "r" -> 114
      [] c = "s" -> 115
      [] c = "t" -> 116
      [] c = "u" -> 117
      [] c = "x" -> 120
      [] c = "y" -> 121
      [] c = "|" -> 124
      [] OTHER -> 127

RECURSIVE LStripSet(_, _)
LStripSet(s, cs) ==
    IF s = <<>> THEN s
    ELSE IF Head(s) \in cs THEN LStripSet(Tail(s), cs) ELSE s

RECURSIVE RStripSet(_, _)
RStripSet(s, cs) ==
    IF s = <<>> THEN s
    ELSE IF s[Len(s)] \in cs THEN RStripSet(SubSeq(s, 1, Len(s) - 1), cs) ELSE s

WhiteSpace == {" ", "\t", "\n"}

\* str.strip()
strip(s) == RStripSet(LStripSet(s, WhiteSpace), WhiteSpace)

\* str.strip('"')
strip_quote(s) == RStripSet(LStripSet(s, {"\""}), {"\""})

\* str.lower()
RECURSIVE lower(_)
lower(s) ==
    IF s = <<>> THEN <<>> ELSE <<LowerChar(Head(s))>> \o lower(Tail(s))

\* str.replace(old, new) for a one-character old
RECURSIVE replace_all(_, _, _)
replace_all(s, old, new) ==
    IF s = <<>> THEN <<>>
    ELSE (IF Head(s) = old THEN new ELSE <<Head(s)>>)
             \o replace_all(Tail(s), old, new)

\* str.split(sep) for a one-character sep: always at least one piece
RECURSIVE split(_, _)
split(s, sep) ==
    IF \A k \in 1..Len(s) : s[k] # sep THEN <<s>>
    ELSE LET p == CHOOSE k \in 1..Len(s) :
                      s[k] = sep /\ \A j \in 1..(k - 1) : s[j] # sep
         IN  <<SubSeq(s, 1, p - 1)>> \o split(SubSeq(s, p + 1, Len(s)), sep)

\* lexicographic order of Python strings
RECURSIVE StrLess(_, _)
StrLess(a, b) ==
    IF b = <<>> THEN FALSE
    ELSE IF a = <<>> THEN TRUE
    ELSE IF CharCode(Head(a)) < CharCode(Head(b)) THEN TRUE
    ELSE IF CharCode(Head(a)) > CharCode(Head(b)) THEN FALSE
    ELSE StrLess(Tail(a), Tail(b))

StrLeq(a, b) == a = b \/ StrLess(a, b)

\* sorted(list(set(xs))): the ascending sequence of a finite set of strings
RECURSIVE SortedSeq(_)
SortedSeq(S) ==
    IF S = {} THEN <<>>
    ELSE LET m == CHOOSE x \in S : \A y \in S : StrLeq(x, y)
         IN  <<m>> \o SortedSeq(S \ {m})

Range(f) == {f[k] : k \in DOMAIN f}

\* ', '.join(list)
RECURSIVE join(_)
join(xs) ==
    IF xs = <<>> THEN <<>>
    ELSE IF Len(xs) = 1 THEN Head(xs)
    ELSE Head(xs) \o <<",", " ">> \o join(Tail(xs))

-----------------------------------------------------------------------------
(* Index Builder: src/milestone1/src/convert_to_json.py *)

\* str(value) of a cell the csv reader yields (always a string there)
str(v) == IF v = NULL THEN <<"N", "o", "n", "e">> ELSE v

TruthyTokens == {<<"1">>, <<"1", ".", "0">>, <<"t", "r", "u", "e">>,
                 <<"y", "e", "s">>}

\* a resolver that compares the trimmed value without lowercasing it
convert_to_bool_no_lower(value) == strip(str(value)) \in TruthyTokens

convert_to_bool(value) == lower(strip(str(value))) \in TruthyTokens

clean_and_strip(string) == strip_quote(strip(str(string)))

ColumnOrder == <<"name", "symptoms", "description", "treatments",
                 "contagious", "chronic", "url">>

\* csv.DictReader over the file write_csv wrote: a null cell and an empty
\* string both come back as ""; row.get(col, default) of an absent column
\* is the default
RowGet(row, col, default) ==
    IF col \in DOMAIN row
    THEN (IF row[col] = NULL THEN E ELSE row[col])
    ELSE default

\* line 31: [s.strip() for s in pieces if s.strip()]
RECURSIVE StripNonEmpty(_)
StripNonEmpty(pieces) ==
    IF pieces = <<>> THEN <<>>
    ELSE (IF strip(Head(pieces)) # E THEN <<strip(Head(pieces))>> ELSE <<>>)
             \o StripNonEmpty(Tail(pieces))

\* lines 23-31: the values generate_jsons derives from one csv row
ParseRow(row) ==
    LET symptoms == lower(clean_and_strip(RowGet(row, "symptoms", E)))
        pieces == split(symptoms, ",")
    IN  [disease |-> lower(clean_and_strip(RowGet(row, "name", E))),
         description |-> clean_and_strip(RowGet(row, "description", E)),
         treatments |-> clean_and_strip(RowGet(row, "treatments", E)),
         contagious |-> convert_to_bool(RowGet(row, "contagious", <<"0">>)),
         chronic |-> convert_to_bool(RowGet(row, "chronic", <<"0">>)),
         source_url |-> clean_and_strip(RowGet(row, "url", E)),
         symptom_list |-> StripNonEmpty(pieces)]

\* lines 33-40
DiseaseInfo(p) ==
    [disease |-> p.disease, text |-> p.description,
     source_url |-> p.source_url, treatment |-> p.treatments,
     contagious |-> p.contagious, chronic |-> p.chronic]

\* a builder that never finds the disease under the symptom key
HasDisease_never(entries, d) == FALSE

HasDisease(entries, d) == \E k \in 1..Len(entries) : entries[k].disease = d

RefOf(entries, d) ==
    entries[CHOOSE k \in 1..Len(entries) : entries[k].disease = d].ref

\* a builder that forgets to fill source_url
FillExisting_no_url(existing, p) ==
    [existing EXCEPT
        !.text = IF existing.text = E /\ p.description # E
                 THEN p.description ELSE @,
        !.treatment = IF existing.treatment = E /\ p.treatments # E
                      THEN p.treatments ELSE @]

\* a builder that lets a later non-empty value replace the kept one
FillExisting_overwrite(existing, p) ==
    [existing EXCEPT
        !.text = IF p.description # E THEN p.description ELSE @,
        !.source_url = IF p.source_url # E THEN p.source_url ELSE @,
        !.treatment = IF p.treatments # E THEN p.treatments ELSE @]

\* lines 48-54: fill the still empty fields of the kept entry
FillExisting(existing, p) ==
    [existing EXCEPT
        !.text = IF existing.text = E /\ p.description # E
                 THEN p.description ELSE @,
        !.source_url = IF existing.source_url = E /\ p.source_url # E
                       THEN p.source_url ELSE @,
        !.treatment = IF existing.treatment = E /\ p.treatments # E
                      THEN p.treatments ELSE @]

\* lines 42-54: the loop over symptom_list; st = [sd, hp]; ref is the
\* disease_info object of this row, stored by reference
RECURSIVE SymptomLoop(_, _, _, _)
SymptomLoop(list, st, p, ref) ==
    IF list = <<>> THEN st
    ELSE
      LET symptom_key == lower(strip(Head(list)))
          entries == IF symptom_key \in DOMAIN st.sd
                     THEN st.sd[symptom_key] ELSE <<>>
          st2 ==
            IF ~HasDisease(entries, p.disease)
            THEN [sd |-> [k \in (DOMAIN st.sd) \cup {symptom_key} |->
                            IF k = symptom_key
                            THEN Append(entries, [disease |-> p.disease,
                                                  ref |-> ref])
                            ELSE st.sd[k]],
                  hp |-> st.hp]
            ELSE LET r == RefOf(entries, p.disease)
                 IN  [sd |-> [k \in (DOMAIN st.sd) \cup {symptom_key} |->
                                IF k = symptom_key THEN entries ELSE st.sd[k]],
                      hp |-> [st.hp EXCEPT ![r] = FillExisting(@, p)]]
      IN  SymptomLoop(Tail(list), st2, p, ref)

\* a builder that records treatments and sources only when it first sees
\* the disease
DiseaseUpdate_first_only(dd, p) ==
    LET fresh == p.disease \notin DOMAIN dd
        old == IF ~fresh
               THEN dd[p.disease]
               ELSE [symptoms |-> <<>>, treatments |-> {}, sources |-> {},
                     contagious |-> p.contagious, chronic |-> p.chronic]
        new == [old EXCEPT
                  !.symptoms = @ \o p.symptom_list,
                  !.treatments = IF p.treatments # E /\ fresh
                                 THEN @ \cup {p.treatments} ELSE @,
                  !.sources = IF p.source_url # E /\ fresh
                              THEN @ \cup {p.source_url} ELSE @]
    IN  [d \in (DOMAIN dd) \cup {p.disease} |->
            IF d = p.disease THEN new ELSE dd[d]]

\* a builder that records the symptoms only when it first sees the disease
DiseaseUpdate_first_symptoms(dd, p) ==
    LET fresh == p.disease \notin DOMAIN dd
        old == IF ~fresh
               THEN dd[p.disease]
               ELSE [symptoms |-> <<>>, treatments |-> {}, sources |-> {},
                     contagious |-> p.contagious, chronic |-> p.chronic]
        new == [old EXCEPT
                  !.symptoms = IF fresh THEN p.symptom_list ELSE @,
                  !.treatments = IF p.treatments # E
                                 THEN @ \cup {p.treatments} ELSE @,
                  !.sources = IF p.source_url # E
                              THEN @ \cup {p.source_url} ELSE @]
    IN  [d \in (DOMAIN dd) \cup {p.disease} |->
            IF d = p.disease THEN new ELSE dd[d]]

\* lines 57-70
DiseaseUpdate(dd, p) ==
    LET old == IF p.disease \in DOMAIN dd
               THEN dd[p.disease]
               ELSE [symptoms |-> <<>>, treatments |-> {}, sources |-> {},
                     contagious |-> p.contagious, chronic |-> p.chronic]
        new == [old EXCEPT
                  !.symptoms = @ \o p.symptom_list,
                  !.treatments = IF p.treatments # E
                                 THEN @ \cup {p.treatments} ELSE @,
                  !.sources = IF p.source_url # E
                              THEN @ \cup {p.source_url} ELSE @]
    IN  [d \in (DOMAIN dd) \cup {p.disease} |->
            IF d = p.disease THEN new ELSE dd[d]]

\* line 78
final_symptom_dict(sd, hp) ==
    [k \in DOMAIN sd |-> [j \in 1..Len(sd[k]) |-> hp[sd[k][j].ref]]]

\* lines 16-20: generate_jsons opens the merged table
GenStart ==
    /\ pc = "idle"
    /\ MergedFile \in DOMAIN final
    /\ pc' = "rows"
    /\ next_row' = 1
    /\ symptom_dict' = EmptyMap
    /\ heap' = EmptyMap
    /\ disease_dict' = EmptyMap
    /\ UNCHANGED <<conv_vars, run_vars, processed, dag_vars>>

\* lines 22-70: one iteration of the loop over the reader's rows
GenRow ==
    /\ pc = "rows"
    /\ next_row <= Len(final[MergedFile].rows)
    /\ LET p == ParseRow(final[MergedFile].rows[next_row])
           hp0 == [r \in (DOMAIN heap) \cup {next_row} |->
                     IF r = next_row THEN DiseaseInfo(p) ELSE heap[r]]
           st == SymptomLoop(p.symptom_list, [sd |-> symptom_dict, hp |-> hp0],
                             p, next_row)
       IN  /\ symptom_dict' = st.sd
           /\ heap' = st.hp
           /\ disease_dict' = DiseaseUpdate(disease_dict, p)
    /\ next_row' = next_row + 1
    /\ UNCHANGED <<conv_vars, run_vars, pc, processed, dag_vars>>

\* lines 72-86: finalize and dump both indices
GenFinish ==
    /\ pc = "rows"
    /\ next_row > Len(final[MergedFile].rows)
    /\ pc' = "done"
    /\ disease_dict' =
          [d \in DOMAIN disease_dict |->
              [disease_dict[d] EXCEPT !.symptoms = SortedSeq(Range(@))]]
    /\ processed' =
          [f \in {"symptom_search.json", "disease_search.json"} |->
              IF f = "symptom_search.json"
              THEN final_symptom_dict(symptom_dict, heap)
              ELSE disease_dict']
    /\ UNCHANGED <<conv_vars, run_vars, next_row, symptom_dict, heap, dag_vars>>

-----------------------------------------------------------------------------
(* Binary matrix converter: src/milestone1/src/simple_binary_converter.py *)

DigitVal(c) ==
    CASE c = "0" -> 0 [] c = "1" -> 1 [] c = "2" -> 2 [] c = "3" -> 3
      [] c = "4" -> 4 [] c = "5" -> 5 [] c = "6" -> 6 [] c = "7" -> 7
      [] c = "8" -> 8 [] c = "9" -> 9 [] OTHER -> -1

RECURSIVE DigitsValue(_, _)
DigitsValue(s, acc) ==
    IF s = <<>> THEN acc
    ELSE DigitsValue(Tail(s), acc * 10 + DigitVal(Head(s)))

\* the digits of int(value): surrounding whitespace and one sign are allowed
IntBody(value) ==
    LET t == strip(value)
    IN  IF t # <<>> /\ Head(t) \in {"+", "-"} THEN Tail(t) ELSE t

\* int(value) raises ValueError unless the body is a non-empty digit string
RaisesValueError(value) ==
    \/ IntBody(value) = <<>>
    \/ \E k \in 1..Len(IntBody(value)) : DigitVal(IntBody(value)[k]) < 0

int(value) ==
    IF Head(strip(value)) = "-"
    THEN 0 - DigitsValue(IntBody(value), 0)
    ELSE DigitsValue(IntBody(value), 0)

\* str(n) of a natural number, as csv.writer writes len(active_symptoms)
RECURSIVE IntStr(_)
IntStr(n) ==
    LET d == <<"0", "1", "2", "3", "4", "5", "6", "7", "8", "9">>[(n % 10) + 1]
    IN  IF n < 10 THEN <<d>> ELSE IntStr(n \div 10) \o <<d>>

\* a converter that takes any row with at least the header's fields
FieldCountOk_at_least(row, header) == Len(row) >= Len(header)

\* line 26: if len(row) != len(header): continue
FieldCountOk(row, header) == Len(row) = Len(header)

\* lines 32-38: the names of the cells whose integer value is 1; a cell that
\* is no integer, or has no header name, is passed over
RECURSIVE active_symptoms(_, _)
active_symptoms(symptom_values, symptom_names) ==
    IF symptom_values = <<>> \/ symptom_names = <<>> THEN <<>>
    ELSE (IF ~RaisesValueError(Head(symptom_values))
               /\ int(Head(symptom_values)) = 1
          THEN <<Head(symptom_names)>> ELSE <<>>)
            \o active_symptoms(Tail(symptom_values), Tail(symptom_names))

\* lines 9-21: open both files, read the header, write the output header
ConvStart ==
    /\ conv_pc = "idle"
    /\ IF csv_in = <<>>
       THEN \* next(reader) raises StopIteration on an empty file
            conv_pc' = "failed" /\ csv_out' = csv_out /\ conv_next' = conv_next
       ELSE /\ conv_pc' = "rows"
            /\ conv_next' = 2
            /\ csv_out' = <<<<<<"d", "i", "s", "e", "a", "s", "e">>,
                              <<"s", "y", "m", "p", "t", "o", "m", "s">>,
                              <<"s", "y", "m", "p", "t", "o", "m", "_",
                                "c", "o", "u", "n", "t">>>>>>
    /\ UNCHANGED <<csv_in, run_vars, idx_vars, dag_vars>>

\* lines 25-42: one iteration of the loop over the reader's rows
ConvRow ==
    /\ conv_pc = "rows"
    /\ conv_next <= Len(csv_in)
    /\ LET header == csv_in[1]
           row == csv_in[conv_next]
       IN  IF ~FieldCountOk(row, header)
           THEN csv_out' = csv_out
           ELSE LET active == active_symptoms(Tail(row), Tail(header))
                IN  csv_out' = IF active # <<>>
                               THEN Append(csv_out, <<row[1], join(active),
                                                      IntStr(Len(active))>>)
                               ELSE csv_out
    /\ conv_next' = conv_next + 1
    /\ UNCHANGED <<csv_in, conv_pc, run_vars, idx_vars, dag_vars>>

\* lines 47-48: the reader is exhausted and both files are closed
ConvFinish ==
    /\ conv_pc = "rows"
    /\ conv_next > Len(csv_in)
    /\ conv_pc' = "done"
    /\ UNCHANGED <<csv_in, csv_out, conv_next, run_vars, idx_vars, dag_vars>>

\* the converter has not been started and has no input
ConvIdle ==
    /\ csv_in = <<>>
    /\ csv_out = <<>>
    /\ conv_pc = "idle"
    /\ conv_next = 1

-----------------------------------------------------------------------------
(* Tables (polars DataFrames): cols is the column order, every row maps each
   column to a string or NULL *)

Put(dir, f, t) ==
    [x \in (DOMAIN dir) \cup {f} |-> IF x = f THEN t ELSE dir[x]]

HasCol(t, c) == c \in Range(t.cols)

RenameCol(m, c) == IF c \in DOMAIN m THEN m[c] ELSE c

\* DataFrame.rename(mapping) raises when a key is no column of the frame or
\* when two columns end up with one name
CanRename(t, m) ==
    /\ DOMAIN m \subseteq Range(t.cols)
    /\ \A j, k \in 1..Len(t.cols) :
          RenameCol(m, t.cols[j]) = RenameCol(m, t.cols[k]) => j = k

MapSeq(xs, F(_)) == [k \in 1..Len(xs) |-> F(xs[k])]

rename(t, m) ==
    LET new_cols == MapSeq(t.cols, LAMBDA c : RenameCol(m, c))
        old_of(c) == CHOOSE x \in Range(t.cols) : RenameCol(m, x) = c
    IN  [cols |-> new_cols,
         rows |-> MapSeq(t.rows,
                    LAMBDA r : [c \in Range(new_cols) |-> r[old_of(c)]])]

\* DataFrame.drop(column)
drop(t, c) ==
    [cols |-> SelectSeq(t.cols, LAMBDA x : x # c),
     rows |-> MapSeq(t.rows, LAMBDA r : [x \in (DOMAIN r) \ {c} |-> r[x]])]

drop_if_present(t, c) == IF HasCol(t, c) THEN drop(t, c) ELSE t

\* DataFrame.with_columns(expr.alias(c)): replaces column c or appends it
with_column(t, c, F(_)) ==
    [cols |-> IF HasCol(t, c) THEN t.cols ELSE Append(t.cols, c),
     rows |-> MapSeq(t.rows,
                LAMBDA r : [x \in (DOMAIN r) \cup {c} |->
                               IF x = c THEN F(r) ELSE r[x]])]

\* add_col_to_df, columns_to_add: the default of each canonical column
ColumnDefault(c) == IF c \in {"contagious", "chronic"} THEN NULL ELSE E

RECURSIVE AddCols(_, _)
AddCols(t, cs) ==
    IF cs = <<>> THEN t
    ELSE AddCols(IF HasCol(t, Head(cs)) THEN t
                 ELSE with_column(t, Head(cs),
                                  LAMBDA r : ColumnDefault(Head(cs))),
                 Tail(cs))

add_col_to_df(t) == AddCols(t, ColumnOrder)

\* pl.col('name').str.strip_chars().str.to_lowercase().str.replace_all(' ', '_')
normalize_name(v) ==
    IF v = NULL THEN NULL ELSE replace_all(lower(strip(v)), " ", <<"_">>)

NormalizeNames(t) ==
    IF HasCol(t, "name")
    THEN with_column(t, "name", LAMBDA r : normalize_name(r["name"]))
    ELSE t

\* pl.col('symptoms').str.replace_all(r'\|', ', ')
replace_pipes(v) ==
    IF v = NULL THEN NULL ELSE replace_all(v, "|", <<",", " ">>)

\* polars sort('name'): nulls first, then ascending
NameLeq(a, b) == a = NULL \/ (b # NULL /\ StrLeq(a, b))

\* a merger that leaves the rows as unique() returns them
IsNameSorted_unsorted(rows) == TRUE

IsNameSorted(rows) ==
    \A k \in 1..(Len(rows) - 1) : NameLeq(rows[k].name, rows[k + 1].name)

\* DataFrame.unique() followed by sort('name'): neither keeps the order of
\* the rows it is given (maintain_order is False), so the result is any
\* name-sorted arrangement of the distinct rows
SortedArrangements(S) ==
    {o \in [1..Cardinality(S) -> S] : Range(o) = S /\ IsNameSorted(o)}

UniqueSorted(rows) == SortedArrangements(Range(rows))

\* DataFrame.unique() alone: any arrangement of the distinct rows
Unique(rows) ==
    LET S == Range(rows)
        n == Cardinality(S)
    IN  {o \in [1..n -> S] : Range(o) = S}

-----------------------------------------------------------------------------
(* Source Adapters: the prepare_*_task functions *)

F_dsl == "disease_symptom_list.csv"
F_ds == "Diseases_Symptoms.csv"
F_dws == "diseases_with_symptoms.csv"
F_pr == "patient_reports.csv"
F_train == "train-00000-of-00001.csv"

Files == {F_dsl, F_ds, F_dws, F_pr, F_train}

\* a script that logs a task's error and goes on with the next task
Step_go_on(ok, next, dir) ==
    IF ok
    THEN run_pc' = next /\ prepared' = dir
    ELSE run_pc' = next /\ prepared' = prepared

\* a task of the script body either completes and the script goes on, or
\* raises and the script stops
Step(ok, next, dir) ==
    IF ok
    THEN run_pc' = next /\ prepared' = dir
    ELSE run_pc' = "failed" /\ prepared' = prepared

\* prepare_disease_symptom_list_task
PrepareDiseaseSymptomList ==
    /\ run_pc = "prep_dsl" /\ pc = "idle"
    /\ LET m == [c \in {"disease"} |-> "name"]
           ok == F_dsl \in DOMAIN clean /\ CanRename(clean[F_dsl], m)
       IN  Step(ok, "prep_ds",
                Put(prepared, F_dsl, add_col_to_df(rename(clean[F_dsl], m))))
    /\ UNCHANGED <<runs, script, clean, final, idx_vars, conv_vars, dag_vars>>

\* prepare_disease_symptom_task
PrepareDiseaseSymptom ==
    /\ run_pc = "prep_ds" /\ pc = "idle"
    /\ LET ok == F_ds \in DOMAIN clean
       IN  Step(ok, "prep_dws",
                Put(prepared, F_ds,
                    add_col_to_df(drop_if_present(clean[F_ds], "disease_code"))))
    /\ UNCHANGED <<runs, script, clean, final, idx_vars, conv_vars, dag_vars>>

\* prepare_diseases_with_symptoms_task
PrepareDiseasesWithSymptoms ==
    /\ run_pc = "prep_dws" /\ pc = "idle"
    /\ LET m == [c \in {"disease"} |-> "name"]
           ok == F_dws \in DOMAIN clean /\ CanRename(clean[F_dws], m)
       IN  Step(ok, "prep_pr",
                Put(prepared, F_dws,
                    add_col_to_df(drop_if_present(rename(clean[F_dws], m),
                                                  "symptom_count"))))
    /\ UNCHANGED <<runs, script, clean, final, idx_vars, conv_vars, dag_vars>>

PatientRename == [c \in {"label", "text"} |->
                    IF c = "label" THEN "name" ELSE "description"]

\* what the Named-Entity Extractor may return for a text
ExtractOutputs == {<<>>, <<<<"a">>>>, <<<<"b">>, <<"a">>>>}

\* an adapter that leaves symptoms null when nothing is extracted
ExtractedSymptoms_null(r, ex) ==
    IF r["description"] # NULL /\ r["description"] # E
         /\ strip(r["description"]) # E /\ ex # <<>>
    THEN join(ex)
    ELSE NULL

\* lines 182-199: the symptoms the loop gives a row, ex being what
\* extract_symptoms returns for it
ExtractedSymptoms(r, ex) ==
    IF r["description"] # NULL /\ r["description"] # E
         /\ strip(r["description"]) # E
    THEN join(ex)
    ELSE E

RECURSIVE ZipSymptoms(_, _)
ZipSymptoms(rows, exs) ==
    IF rows = <<>> THEN <<>>
    ELSE <<[c \in DOMAIN Head(rows) |->
               IF c = "symptoms"
               THEN ExtractedSymptoms(Head(rows), Head(exs))
               ELSE Head(rows)[c]]>>
            \o ZipSymptoms(Tail(rows), Tail(exs))

\* prepare_patient_reports_task of src/data_preparation_and_cleaning.py
PreparePatientReports ==
    /\ run_pc = "prep_pr" /\ pc = "idle" /\ script = "src"
    /\ LET ok == F_pr \in DOMAIN clean /\ CanRename(clean[F_pr], PatientRename)
           t == add_col_to_df(drop_if_present(rename(clean[F_pr],
                                                     PatientRename), ""))
       IN  IF ~ok THEN Step(FALSE, "prep_train", prepared)
           ELSE \E exs \in [1..Len(t.rows) -> ExtractOutputs] :
                  LET updated_rows == ZipSymptoms(t.rows, exs)
                      \* pl.DataFrame([]) has no columns
                      df == IF updated_rows = <<>>
                            THEN [cols |-> <<>>, rows |-> <<>>]
                            ELSE [cols |-> t.cols, rows |-> updated_rows]
                      normal == NormalizeNames(df)
                  IN  \E o \in (IF HasCol(normal, "name")
                                THEN UniqueSorted(normal.rows)
                                ELSE Unique(normal.rows)) :
                        Step(TRUE, "prep_train",
                             Put(prepared, F_pr,
                                 NormalizeNames([cols |-> normal.cols,
                                                 rows |-> o])))
    /\ UNCHANGED <<runs, script, clean, final, idx_vars, conv_vars, dag_vars>>

\* prepare_patient_reports_task of dags/data_prep_alternative.py
PreparePatientReportsAlt ==
    /\ run_pc = "prep_pr" /\ pc = "idle" /\ script = "alt"
    /\ LET ok == F_pr \in DOMAIN clean /\ CanRename(clean[F_pr], PatientRename)
       IN  Step(ok, "prep_train",
                Put(prepared, F_pr,
                    add_col_to_df(drop_if_present(rename(clean[F_pr],
                                                         PatientRename),
                                                  "unnamed:_0"))))
    /\ UNCHANGED <<runs, script, clean, final, idx_vars, conv_vars, dag_vars>>

TrainRename ==
    [c \in {"source_url", "disease_name", "symptom_list",
            "generated_sentence_from_symptoms"} |->
        CASE c = "source_url" -> "url"
          [] c = "disease_name" -> "name"
          [] c = "symptom_list" -> "symptoms"
          [] OTHER -> "description"]

ReplacePipes(t) ==
    IF HasCol(t, "symptoms")
    THEN with_column(t, "symptoms", LAMBDA r : replace_pipes(r["symptoms"]))
    ELSE t

\* prepare_train_0000_of_0001_task of src/data_preparation_and_cleaning.py
PrepareTrain ==
    /\ run_pc = "prep_train" /\ pc = "idle" /\ script = "src"
    /\ LET ok == F_train \in DOMAIN clean /\ CanRename(clean[F_train], TrainRename)
       IN  Step(ok, "merge",
                Put(prepared, F_train,
                    add_col_to_df(ReplacePipes(NormalizeNames(
                        rename(clean[F_train], TrainRename))))))
    /\ UNCHANGED <<runs, script, clean, final, idx_vars, conv_vars, dag_vars>>

\* prepare_train_0000_of_0001_task of dags/data_prep_alternative.py
PrepareTrainAlt ==
    /\ run_pc = "prep_train" /\ pc = "idle" /\ script = "alt"
    /\ LET ok == F_train \in DOMAIN clean /\ CanRename(clean[F_train], TrainRename)
       IN  Step(ok, "merge",
                Put(prepared, F_train,
                    add_col_to_df(ReplacePipes(
                        rename(clean[F_train], TrainRename)))))
    /\ UNCHANGED <<runs, script, clean, final, idx_vars, conv_vars, dag_vars>>

-----------------------------------------------------------------------------
(* Dataset Merger: merge_datasets_task *)

\* the rows of the files in enumeration order, one after the other
RECURSIVE ConcatRows(_, _)
ConcatRows(dir, order) ==
    IF order = <<>> THEN <<>>
    ELSE dir[Head(order)].rows \o ConcatRows(dir, Tail(order))

\* SELECT col or NULL as col, for col in column_order (lines 292-301)
Project(r) ==
    [c \in Range(ColumnOrder) |-> IF c \in DOMAIN r THEN r[c] ELSE NULL]

\* prepared_files = list(glob('*.csv')): the directory's files in the order
\* the file system happens to list them
Enumerations(dir) ==
    LET S == DOMAIN dir
    IN  {o \in [1..Cardinality(S) -> S] : Range(o) = S}

\* lines 304-305: the UNION ALL of the views, in enumeration order
UnionAll(dir, order) ==
    [cols |-> ColumnOrder, rows |-> MapSeq(ConcatRows(dir, order), Project)]

\* a deduplication that keeps one row of each name
Distinct_by_name(t) ==
    [cols |-> t.cols,
     rows |-> {CHOOSE r \in Range(t.rows) : r["name"] = n :
                  n \in {x["name"] : x \in Range(t.rows)}}]

\* DataFrame.unique(): the distinct rows, in no particular order
Distinct(t) == [cols |-> t.cols, rows |-> Range(t.rows)]

\* merge_datasets_task of src/data_preparation_and_cleaning.py (DuckDB)
MergeDuckDB ==
    /\ run_pc \in {"merge", "done"} /\ pc = "idle" /\ script = "src"
    /\ IF prepared = EmptyMap
       THEN \* the final folder is already removed when the query fails
            final' = EmptyMap /\ run_pc' = "failed"
       ELSE \E df \in {Distinct(NormalizeNames(UnionAll(prepared, order))) :
                           order \in Enumerations(prepared)} :
              \E o \in SortedArrangements(df.rows) :
                /\ final' = [f \in {MergedFile} |->
                               [cols |-> ColumnOrder, rows |-> o]]
                /\ run_pc' = "done"
    /\ UNCHANGED <<runs, script, clean, prepared, idx_vars, conv_vars, dag_vars>>

\* pl.concat(dataframes, how='diagonal'): the union of the columns, in the
\* order they are first met
RECURSIVE DiagonalCols(_, _, _)
DiagonalCols(dir, order, acc) ==
    IF order = <<>> THEN acc
    ELSE DiagonalCols(dir, Tail(order),
                      acc \o SelectSeq(dir[Head(order)].cols,
                                       LAMBDA c : c \notin Range(acc)))

Widen(r, cols) == [c \in Range(cols) |-> IF c \in DOMAIN r THEN r[c] ELSE NULL]

\* lines 313-326: read every prepared file and concatenate
ConcatDiagonal(dir, order) ==
    LET cols == DiagonalCols(dir, order, <<>>)
    IN  [cols |-> cols,
         rows |-> MapSeq(ConcatRows(dir, order), LAMBDA r : Widen(r, cols))]

\* create_disease_contagious_chronic_map: the last row of a name wins
\* a map in which the first row of a name wins
RECURSIVE BuildMap_first_wins(_, _)
BuildMap_first_wins(rows, m) ==
    IF rows = <<>> THEN m
    ELSE LET row == Head(rows)
             disease == replace_all(lower(strip(row["name"])), " ", <<"_">>)
             get(c) == IF c \in DOMAIN row THEN row[c] ELSE NULL
         IN  BuildMap_first_wins(Tail(rows),
                 IF disease \in DOMAIN m THEN m
                 ELSE Put(m, disease, [contagious |-> get("contagious"),
                                       chronic |-> get("chronic"),
                                       treatments |-> get("treatments")]))

RECURSIVE BuildMap(_, _)
BuildMap(rows, m) ==
    IF rows = <<>> THEN m
    ELSE LET row == Head(rows)
             disease == replace_all(lower(strip(row["name"])), " ", <<"_">>)
             get(c) == IF c \in DOMAIN row THEN row[c] ELSE NULL
         IN  BuildMap(Tail(rows),
                      Put(m, disease, [contagious |-> get("contagious"),
                                       chronic |-> get("chronic"),
                                       treatments |-> get("treatments")]))

\* row['name'].strip() raises without the column or on a null name
CanBuildMap(dir) ==
    /\ F_ds \in DOMAIN dir
    /\ HasCol(dir[F_ds], "name")
    /\ \A k \in 1..Len(dir[F_ds].rows) : dir[F_ds].rows[k]["name"] # NULL

create_disease_contagious_chronic_map(dir) == BuildMap(dir[F_ds].rows, EmptyMap)

\* lines 346-348: str(disease_map.get(x, {}).get(col, '')); map_elements
\* leaves a null name null
Mapped(disease_map, name, c) ==
    IF name = NULL THEN NULL
    ELSE IF name \in DOMAIN disease_map THEN str(disease_map[name][c])
    ELSE E

\* a backfill that lets the map replace the attributes of every mapped name
Backfill_always(disease_map, r) ==
    [c \in DOMAIN r |->
        IF c \in {"contagious", "chronic", "treatments"}
             /\ r["name"] \in DOMAIN disease_map
        THEN Mapped(disease_map, r["name"], c)
        ELSE r[c]]

\* lines 352-365: a null or empty cell takes the mapped value
Backfill(disease_map, r) ==
    [c \in DOMAIN r |->
        IF c \in {"contagious", "chronic", "treatments"}
             /\ (r[c] = NULL \/ r[c] = E)
        THEN Mapped(disease_map, r["name"], c)
        ELSE r[c]]

\* merge_datasets_task of dags/data_prep_alternative.py (polars)
MergePolars ==
    /\ run_pc \in {"merge", "done"} /\ pc = "idle" /\ script = "alt"
    /\ IF prepared = EmptyMap \/ ~CanBuildMap(clean)
       THEN \* the final folder is already removed when the task raises
            final' = EmptyMap /\ run_pc' = "failed"
       ELSE \E df \in {Distinct(NormalizeNames(ConcatDiagonal(prepared, order))) :
                           order \in Enumerations(prepared)} :
              LET disease_map == create_disease_contagious_chronic_map(clean)
              IN  \E o \in SortedArrangements(df.rows) :
                    /\ final' = [f \in {MergedFile} |->
                                   [cols |-> df.cols,
                                    rows |-> MapSeq(o,
                                       LAMBDA r : Backfill(disease_map, r))]]
                    /\ run_pc' = "done"
    /\ UNCHANGED <<runs, script, clean, prepared, idx_vars, conv_vars, dag_vars>>

-----------------------------------------------------------------------------
(* Task scheduling: the DAG 'data_preparation_pipeline' of
   dags/data_prep_dag.py and run_all_tasks of
   dags/data_prep_and_clean_airflow.py.  A path is <<folder, name>>, the
   folder itself is <<folder, "">>.  A file records its state ("partial"
   between the open and the close of to_csv, "complete" after), the task that
   wrote it and its rows as text cells.  The rows are computed up to
   all_separated_symptoms.csv; the rows of the later files are not part of
   the model and are written as <<>>. *)

DagModule == "data_prep_dag"

ScriptModule == "data_prep_and_clean_airflow"

F_sep1 == "symptoms_separated.csv"

\* the one file for both separations
F_sep2_same_file == "symptoms_separated.csv"

F_sep2 == "symptoms_separated2.csv"

F_all == "all_separated_symptoms.csv"

F_mst == "merged_symptoms_text.csv"

F_final == "final.csv"

F_dwt == "diseases_with_treatment.csv"

F_out == "merged_final_dataset.csv"

DagTasks ==
    {"create_directories", "separate_symptoms_from_disease_list",
     "separate_symptoms_from_diseases", "merge_separated_symptoms",
     "merge_with_patient_reports", "process_train_data",
     "process_treatments", "create_final_dataset"}

ScriptTasks ==
    {"clean_folders_task", "separate_symptoms_task",
     "merge_separated_symptoms_task", "merge_with_patient_reports_task",
     "process_train_dataset_task", "process_treatment_data_task",
     "create_final_dataset_task"}

Tasks ==
    CASE module = DagModule -> DagTasks
      [] module = ScriptModule -> ScriptTasks
      [] OTHER -> {}

\* a merge that waits for the first separation only
MergeUpstream_first_only == {"separate_symptoms_from_disease_list"}

\* [separate_task1, separate_task2] >> merge_symptoms
MergeUpstream ==
    {"separate_symptoms_from_disease_list", "separate_symptoms_from_diseases"}

\* the tasks directly upstream of t: the >> lines of the DAG, the order of the
\* calls in run_all_tasks
Upstream(t) ==
    CASE t = "separate_symptoms_from_disease_list" -> {"create_directories"}
      [] t = "separate_symptoms_from_diseases" -> {"create_directories"}
      [] t = "merge_separated_symptoms" -> MergeUpstream
      [] t = "merge_with_patient_reports" -> {"merge_separated_symptoms"}
      [] t = "process_train_data" -> {"merge_with_patient_reports"}
      [] t = "process_treatments" -> {"process_train_data"}
      [] t = "create_final_dataset" -> {"process_treatments"}
      [] t = "separate_symptoms_task" -> {"clean_folders_task"}
      [] t = "merge_separated_symptoms_task" -> {"separate_symptoms_task"}
      [] t = "merge_with_patient_reports_task" ->
             {"merge_separated_symptoms_task"}
      [] t = "process_train_dataset_task" ->
             {"merge_with_patient_reports_task"}
      [] t = "process_treatment_data_task" -> {"process_train_dataset_task"}
      [] t = "create_final_dataset_task" -> {"process_treatment_data_task"}
      [] OTHER -> {}

RECURSIVE Ancestors(_)
Ancestors(t) == Upstream(t) \cup UNION {Ancestors(u) : u \in Upstream(t)}

\* default_args['retries'] of the DAG; an exception ends run_all_tasks
Retries == IF module = DagModule THEN 1 ELSE 0

\* the number of exceptions followed within one run
MaxFailures == 2

\* DATA_DIR of the DAG file
DATA_DIR == "data"

\* paths['original'] of the task script
ORIGINAL_DIR == "original"

CLEAN_DIR == "clean"

FINAL_DIR == "final"

\* the folder of the original files
OriginalDir == IF module = DagModule THEN DATA_DIR ELSE ORIGINAL_DIR

\* the folder of symptoms_separated.csv and symptoms_separated2.csv
SeparatedDir == IF module = DagModule THEN DATA_DIR ELSE CLEAN_DIR

\* one file operation: "makedirs" and "rmtree" on a folder (f = ""),
\* "read_csv", "open" and "close" on a file
Do(op, d, f) == <<[op |-> op, path |-> <<d, f>>]>>

\* DataFrame.to_csv opens the file, writes the rows and closes it
to_csv(d, f) == Do("open", d, f) \o Do("close", d, f)

setup_paths == Do("makedirs", CLEAN_DIR, "") \o Do("makedirs", FINAL_DIR, "")

\* the file operations of a task's callable, in program order
Program(t) ==
    CASE t = "create_directories" ->
             Do("makedirs", CLEAN_DIR, "") \o Do("makedirs", FINAL_DIR, "")
      [] t = "separate_symptoms_from_disease_list" ->
             Do("read_csv", DATA_DIR, F_dsl) \o to_csv(DATA_DIR, F_sep1)
      [] t = "separate_symptoms_from_diseases" ->
             Do("read_csv", DATA_DIR, F_dws) \o to_csv(DATA_DIR, F_sep2)
      [] t = "merge_separated_symptoms" ->
             Do("read_csv", DATA_DIR, F_sep1) \o Do("read_csv", DATA_DIR, F_sep2)
             \o to_csv(CLEAN_DIR, F_all)
      [] t = "merge_separated_symptoms_task" ->
             setup_paths
             \o Do("read_csv", CLEAN_DIR, F_sep1) \o Do("read_csv", CLEAN_DIR, F_sep2)
             \o to_csv(CLEAN_DIR, F_all)
      [] t = "merge_with_patient_reports" ->
             Do("read_csv", CLEAN_DIR, F_all) \o Do("read_csv", DATA_DIR, F_pr)
             \o to_csv(CLEAN_DIR, F_mst)
      [] t = "merge_with_patient_reports_task" ->
             setup_paths
             \o Do("read_csv", CLEAN_DIR, F_all) \o Do("read_csv", ORIGINAL_DIR, F_pr)
             \o to_csv(CLEAN_DIR, F_mst)
      [] t = "process_train_data" ->
             Do("read_csv", CLEAN_DIR, F_mst) \o Do("read_csv", DATA_DIR, F_train)
             \o to_csv(CLEAN_DIR, F_final)
      [] t = "process_train_dataset_task" ->
             setup_paths
             \o Do("read_csv", ORIGINAL_DIR, F_train)
             \o Do("read_csv", CLEAN_DIR, F_mst)
             \o to_csv(CLEAN_DIR, F_final)
      [] t = "process_treatments" ->
             Do("read_csv", DATA_DIR, F_ds) \o to_csv(CLEAN_DIR, F_dwt)
      [] t = "process_treatment_data_task" ->
             setup_paths
             \o Do("read_csv", ORIGINAL_DIR, F_ds) \o to_csv(CLEAN_DIR, F_dwt)
      [] t \in {"create_final_dataset", "create_final_dataset_task"} ->
             (IF t = "create_final_dataset" THEN <<>> ELSE setup_paths)
             \o Do("read_csv", CLEAN_DIR, F_final) \o Do("read_csv", CLEAN_DIR, F_dwt)
             \o to_csv(FINAL_DIR, F_out)
      [] t = "clean_folders_task" ->
             setup_paths
             \o Do("rmtree", CLEAN_DIR, "") \o Do("makedirs", CLEAN_DIR, "")
      [] t = "separate_symptoms_task" ->
             setup_paths
             \o Do("read_csv", ORIGINAL_DIR, F_dsl) \o to_csv(CLEAN_DIR, F_sep1)
             \o Do("read_csv", ORIGINAL_DIR, F_dws) \o to_csv(CLEAN_DIR, F_sep2)
      [] OTHER -> <<>>

\* pd.read_csv: an empty cell is read as NaN
read_csv(rows) ==
    [k \in 1..Len(rows) |->
        [c \in DOMAIN rows[k] |-> IF rows[k][c] = E THEN NULL ELSE rows[k][c]]]

\* to_csv: NaN is written as an empty cell
csv_text(rows) ==
    [k \in 1..Len(rows) |->
        [c \in DOMAIN rows[k] |-> IF rows[k][c] = NULL THEN E ELSE rows[k][c]]]

\* Series.str.split(sep): the pieces of s between the occurrences of sep
RECURSIVE str_split(_, _, _)
str_split(s, sep, piece) ==
    IF s = <<>> THEN <<piece>>
    ELSE IF Len(s) >= Len(sep) /\ SubSeq(s, 1, Len(sep)) = sep
    THEN <<piece>> \o str_split(SubSeq(s, Len(sep) + 1, Len(s)), sep, <<>>)
    ELSE str_split(Tail(s), sep, Append(piece, Head(s)))

\* df.assign(symptom=df['symptoms'].str.split(', ')).explode('symptom') and
\* df['symptom'].str.strip(): one row per piece, NaN stays NaN
RECURSIVE explode(_)
explode(rows) ==
    IF rows = <<>> THEN <<>>
    ELSE LET r == Head(rows)
             pieces == IF r["symptoms"] = NULL THEN <<NULL>>
                       ELSE str_split(r["symptoms"], <<",", " ">>, <<>>)
         IN  [k \in 1..Len(pieces) |->
                 [c \in (DOMAIN r) \cup {"symptom"} |->
                     IF c # "symptom" THEN r[c]
                     ELSE IF pieces[k] = NULL THEN NULL
                     ELSE strip(pieces[k])]]
             \o explode(Tail(rows))

\* df.drop(columns=[c])
drop_columns(rows, c) ==
    [k \in 1..Len(rows) |-> [x \in (DOMAIN rows[k]) \ {c} |-> rows[k][x]]]

\* df[[...]]
select(rows, cs) == [k \in 1..Len(rows) |-> [x \in cs |-> rows[k][x]]]

\* pd.concat([a, b], ignore_index=True): a column one frame lacks is NaN
concat(a, b) ==
    LET cs == UNION {DOMAIN r : r \in Range(a) \cup Range(b)}
    IN  [k \in 1..(Len(a) + Len(b)) |->
            LET r == IF k <= Len(a) THEN a[k] ELSE b[k - Len(a)]
            IN  [c \in cs |-> IF c \in DOMAIN r THEN r[c] ELSE NULL]]

\* DataFrame.drop_duplicates(): the first of equal rows is kept
RECURSIVE drop_duplicates(_)
drop_duplicates(rows) ==
    IF rows = <<>> THEN <<>>
    ELSE LET front == drop_duplicates(SubSeq(rows, 1, Len(rows) - 1))
             last == rows[Len(rows)]
         IN  IF last \in Range(front) THEN front ELSE Append(front, last)

\* the frame a task writes to path p, from the files mem it has read
Output(p, mem) ==
    LET original(f) == read_csv(mem[<<OriginalDir, f>>].rows)
        separated(f) == read_csv(mem[<<SeparatedDir, f>>].rows)
    IN  CASE p[2] = F_sep1 ->
               drop_columns(explode(original(F_dsl)), "symptoms")
          [] p[2] = F_sep2 ->
               select(explode(original(F_dws)), {"disease", "symptom"})
          [] p[2] = F_all ->
               IF module = DagModule
               THEN drop_duplicates(concat(separated(F_sep1),
                                           separated(F_sep2)))
               ELSE concat(separated(F_sep1), separated(F_sep2))
          [] OTHER -> <<>>

RECURSIVE SumOver(_, _)
SumOver(f, S) ==
    IF S = {} THEN 0
    ELSE LET x == CHOOSE y \in S : TRUE IN f[x] + SumOver(f, S \ {x})

\* the number of exceptions so far: every start but the running ones and the
\* successful ones has ended in one
Failures ==
    SumOver(try_number, Tasks)
    - Cardinality({t \in Tasks : task_state[t] \in {"running", "success"}})

\* the state of the task after an exception
Raise(t) ==
    [task_state EXCEPT
        ![t] = IF try_number[t] <= Retries THEN "up_for_retry" ELSE "failed"]

\* the operation the task is about to execute
Op(t) == Program(t)[task_pc[t]]

Running(t, kinds) ==
    /\ t \in Tasks
    /\ task_state[t] = "running"
    /\ Op(t).op \in kinds

\* the task goes on to its next operation, or returns
Advance(t) ==
    IF task_pc[t] = Len(Program(t))
    THEN /\ task_state' = [task_state EXCEPT ![t] = "success"]
         /\ UNCHANGED task_pc
    ELSE /\ task_pc' = [task_pc EXCEPT ![t] = task_pc[t] + 1]
         /\ UNCHANGED task_state

\* the scheduler starts a task whose upstream tasks have all succeeded
\* (trigger rule all_success), for the first time or for a retry
TaskStart(t) ==
    /\ t \in Tasks
    /\ task_state[t] \in {"none", "up_for_retry"}
    /\ \A u \in Upstream(t) : task_state[u] = "success"
    /\ task_state' = [task_state EXCEPT ![t] = "running"]
    /\ task_pc' = [task_pc EXCEPT ![t] = 1]
    /\ try_number' = [try_number EXCEPT ![t] = try_number[t] + 1]
    /\ loaded' = [loaded EXCEPT ![t] = EmptyMap]
    /\ UNCHANGED <<module, data_dir, run_vars, idx_vars, conv_vars>>

\* os.makedirs(exist_ok=True), Path.mkdir(parents=True, exist_ok=True)
Makedirs(t) ==
    /\ Running(t, {"makedirs"})
    /\ data_dir' = IF Op(t).path \in DOMAIN data_dir THEN data_dir
                   ELSE Put(data_dir, Op(t).path,
                            [state |-> "dir", by |-> t, rows |-> <<>>])
    /\ Advance(t)
    /\ UNCHANGED <<module, try_number, loaded, run_vars, idx_vars, conv_vars>>

\* shutil.rmtree: the folder and every file in it
Rmtree(t) ==
    /\ Running(t, {"rmtree"})
    /\ data_dir' = [p \in {q \in DOMAIN data_dir : q[1] # Op(t).path[1]} |->
                       data_dir[p]]
    /\ Advance(t)
    /\ UNCHANGED <<module, try_number, loaded, run_vars, idx_vars, conv_vars>>

\* pd.read_csv: FileNotFoundError when the file is missing, else the task
\* holds what the file holds at this moment
ReadCsv(t) ==
    /\ Running(t, {"read_csv"})
    /\ IF Op(t).path \in DOMAIN data_dir
       THEN /\ loaded' = [loaded EXCEPT
                    ![t] = Put(loaded[t], Op(t).path, data_dir[Op(t).path])]
            /\ Advance(t)
       ELSE /\ task_state' = Raise(t)
            /\ UNCHANGED <<loaded, task_pc>>
    /\ UNCHANGED <<module, try_number, data_dir, run_vars, idx_vars, conv_vars>>

\* to_csv opens (and truncates) the file: OSError when the folder is missing
OpenCsv(t) ==
    /\ Running(t, {"open"})
    /\ IF <<Op(t).path[1], "">> \in DOMAIN data_dir
       THEN /\ data_dir' = Put(data_dir, Op(t).path,
                    [state |-> "partial", by |-> t, rows |-> <<>>])
            /\ Advance(t)
       ELSE /\ task_state' = Raise(t)
            /\ UNCHANGED <<data_dir, task_pc>>
    /\ UNCHANGED <<module, try_number, loaded, run_vars, idx_vars, conv_vars>>

\* to_csv has written every row and closes the file
CloseCsv(t) ==
    /\ Running(t, {"close"})
    /\ data_dir' = Put(data_dir, Op(t).path,
                       [state |-> "complete", by |-> t,
                        rows |-> csv_text(Output(Op(t).path, loaded[t]))])
    /\ Advance(t)
    /\ UNCHANGED <<module, try_number, loaded, run_vars, idx_vars, conv_vars>>

\* the callable raises, or its process is killed, at any point
TaskFail(t) ==
    /\ t \in Tasks
    /\ task_state[t] = "running"
    /\ Failures < MaxFailures
    /\ task_state' = Raise(t)
    /\ UNCHANGED <<module, task_pc, try_number, loaded, data_dir,
                   run_vars, idx_vars, conv_vars>>

\* a task downstream of a failed task is never started
UpstreamFailed(t) ==
    /\ t \in Tasks
    /\ task_state[t] = "none"
    /\ \E u \in Upstream(t) : task_state[u] \in {"failed", "upstream_failed"}
    /\ task_state' = [task_state EXCEPT ![t] = "upstream_failed"]
    /\ UNCHANGED <<module, task_pc, try_number, loaded, data_dir,
                   run_vars, idx_vars, conv_vars>>

\* no DAG run and no script run
DagIdle ==
    /\ module = "none"
    /\ task_state = EmptyMap
    /\ task_pc = EmptyMap
    /\ try_number = EmptyMap
    /\ loaded = EmptyMap
    /\ data_dir = EmptyMap

-----------------------------------------------------------------------------
(* Inputs of the pipeline: the clean directory after clean_datasets_task (no
   null cell, lower-case column names) *)

MaxFileRows == 1
MaxSrcRows == 3

SeqsUpTo(S, n) == UNION {[1..k -> S] : k \in 0..n}

Cols(f) ==
    CASE f = F_dsl -> <<"disease", "symptoms">>
      [] f = F_ds -> <<"disease_code", "name", "symptoms", "treatments",
                       "contagious", "chronic">>
      [] f = F_dws -> <<"disease", "symptoms", "symptom_count">>
      [] f = F_pr -> <<"", "label", "text">>
      [] OTHER -> <<"source_url", "disease_name", "symptom_list",
                    "generated_sentence_from_symptoms">>

\* the column of a source file that becomes name
SourceNameCol(f) ==
    CASE f = F_ds -> "name"
      [] f = F_pr -> "label"
      [] f = F_train -> "disease_name"
      [] OTHER -> "disease"

\* the rows a source may hold, as tuples in the order of Cols
RowChoices(f) ==
    CASE f = F_dsl -> {<<<<"f">>, <<"a">>>>, <<<<" ">>, <<"b">>>>}
      [] f = F_ds -> {<<<<"9">>, <<"F">>, <<"a">>, <<"r">>, <<"1">>, <<"0">>>>,
                      <<<<"8">>, <<"c">>, <<"b">>, <<"t", "|", "s">>, <<"0">>, <<"1">>>>}
      [] f = F_dws -> {<<<<"F">>, <<"a", ",", " ", "b">>, <<"2">>>>,
                       <<<<"c">>, <<"a">>, <<"1">>>>}
      [] f = F_pr -> {<<<<"0">>, <<"F">>, <<"x">>>>,
                      <<<<"1">>, <<"c">>, <<" ">>>>}
      [] OTHER -> {<<<<"u">>, <<"F">>, <<"a", "|", "b">>, <<"y">>>>,
                   <<<<"h">>, <<"f", " ", " ", "c">>, <<"b">>, <<"x">>>>}

MkTable(f, tuples) ==
    [cols |-> Cols(f),
     rows |-> [k \in 1..Len(tuples) |->
                 [c \in Range(Cols(f)) |->
                     tuples[k][CHOOSE j \in 1..Len(Cols(f)) : Cols(f)[j] = c]]]]

RECURSIVE SumRows(_, _)
SumRows(dir, fs) ==
    IF fs = {} THEN 0
    ELSE LET f == CHOOSE x \in fs : TRUE
         IN  Len(dir[f].rows) + SumRows(dir, fs \ {f})

\* the tables a clean file may hold; clean_datasets_task writes
\* df_cleaned.unique(), so no row occurs twice
TablesOf(f) ==
    {MkTable(f, ts) : ts \in {x \in SeqsUpTo(RowChoices(f), MaxFileRows) :
                                Cardinality(Range(x)) = Len(x)}}

CleanDirs ==
    {d \in {[f \in Files |->
               CASE f = F_dsl -> a [] f = F_ds -> b [] f = F_dws -> c
                 [] f = F_pr -> p [] OTHER -> t] :
             a \in TablesOf(F_dsl), b \in TablesOf(F_ds),
             c \in TablesOf(F_dws), p \in TablesOf(F_pr),
             t \in TablesOf(F_train)} :
        /\ d[F_pr].rows # <<>>
        /\ SumRows(d, Files) <= MaxSrcRows}

Init ==
    /\ runs = 1
    /\ script \in {"src", "alt"}
    /\ run_pc = "prep_dsl"
    /\ clean \in CleanDirs
    /\ prepared = EmptyMap
    /\ final = EmptyMap
    /\ pc = "idle"
    /\ next_row = 1
    /\ symptom_dict = EmptyMap
    /\ heap = EmptyMap
    /\ disease_dict = EmptyMap
    /\ processed = EmptyMap
    /\ ConvIdle
    /\ DagIdle

Next ==
    \/ PrepareDiseaseSymptomList
    \/ PrepareDiseaseSymptom
    \/ PrepareDiseasesWithSymptoms
    \/ PreparePatientReports
    \/ PreparePatientReportsAlt
    \/ PrepareTrain
    \/ PrepareTrainAlt
    \/ MergeDuckDB
    \/ MergePolars
    \/ GenStart
    \/ GenRow
    \/ GenFinish

Spec == Init /\ [][Next]_vars

-----------------------------------------------------------------------------
(* Inputs with a schema fault: a clean directory in which at most one file
   has the column that becomes name under another header *)

BreakTable(f, t) == rename(t, [c \in {SourceNameCol(f)} |-> "illness"])

SchemaDirs ==
    {[f \in Files |-> IF f = broken THEN BreakTable(f, d[f]) ELSE d[f]] :
        d \in {x \in CleanDirs : x[F_dsl].rows = <<>> /\ x[F_dws].rows = <<>>},
        broken \in Files \cup {"none"}}

InitSchema ==
    /\ runs = 1
    /\ script \in {"src", "alt"}
    /\ run_pc = "prep_dsl"
    /\ clean \in SchemaDirs
    /\ prepared = EmptyMap
    /\ final = EmptyMap
    /\ pc = "idle"
    /\ next_row = 1
    /\ symptom_dict = EmptyMap
    /\ heap = EmptyMap
    /\ disease_dict = EmptyMap
    /\ processed = EmptyMap
    /\ ConvIdle
    /\ DagIdle

SpecSchema == InitSchema /\ [][Next]_vars

-----------------------------------------------------------------------------
(* Inputs of the task scheduling: the original files, and the files an
   earlier run may have left *)

MaxDagRows == 1

\* rows of disease_symptom_list.csv and of diseases_with_symptoms.csv
DagChoices(f) ==
    IF f = F_dsl
    THEN {<<<<"f">>, <<"a", ",", " ", " ", "a">>>>, <<<<"c">>, E>>}
    ELSE {<<<<"f">>, <<"a">>, <<"1">>>>}

\* the folders with the original files holding rows a and b, and with what
\* an earlier run has left when stale
DagDirs(m) ==
    LET data == IF m = DagModule THEN "data" ELSE "original"
        sep == IF m = DagModule THEN "data" ELSE "clean"
        Original(f, tuples) ==
            [state |-> "complete", by |-> "original",
             rows |-> MkTable(f, tuples).rows]
        Earlier(f) ==
            [state |-> "complete", by |-> "earlier_run",
             rows |-> IF f \in {F_sep1, F_sep2, F_all}
                      THEN <<[disease |-> <<"z">>, symptom |-> <<"z">>]>>
                      ELSE <<>>]
        originals(a, b) ==
            [p \in {<<data, f>> : f \in Files \cup {""}} |->
                CASE p[2] = "" ->
                       [state |-> "dir", by |-> "original", rows |-> <<>>]
                  [] p[2] = F_dsl -> Original(F_dsl, a)
                  [] p[2] = F_dws -> Original(F_dws, b)
                  [] OTHER -> Original(p[2], <<>>)]
        left == {<<sep, F_sep1>>, <<sep, F_sep2>>, <<"clean", "">>,
                 <<"clean", F_all>>, <<"clean", F_mst>>, <<"clean", F_final>>,
                 <<"clean", F_dwt>>, <<"final", "">>, <<"final", F_out>>}
        leftover == [p \in left |->
                        IF p[2] = ""
                        THEN [state |-> "dir", by |-> "earlier_run",
                              rows |-> <<>>]
                        ELSE Earlier(p[2])]
    IN  {IF stale THEN [p \in DOMAIN originals(a, b) \cup left |->
                           IF p \in left THEN leftover[p]
                           ELSE originals(a, b)[p]]
         ELSE originals(a, b) :
            a \in SeqsUpTo(DagChoices(F_dsl), MaxDagRows),
            b \in SeqsUpTo(DagChoices(F_dws), MaxDagRows),
            stale \in BOOLEAN}

InitDag ==
    /\ runs = 1
    /\ script = "src"
    /\ run_pc = "done"
    /\ clean = EmptyMap
    /\ prepared = EmptyMap
    /\ final = EmptyMap
    /\ pc = "idle"
    /\ next_row = 1
    /\ symptom_dict = EmptyMap
    /\ heap = EmptyMap
    /\ disease_dict = EmptyMap
    /\ processed = EmptyMap
    /\ ConvIdle
    /\ module \in {DagModule, ScriptModule}
    /\ data_dir \in DagDirs(module)
    /\ task_state = [t \in Tasks |-> "none"]
    /\ task_pc = [t \in Tasks |-> 1]
    /\ try_number = [t \in Tasks |-> 0]
    /\ loaded = [t \in Tasks |-> EmptyMap]

NextDag ==
    \E t \in DagTasks \cup ScriptTasks :
        \/ TaskStart(t)
        \/ Makedirs(t)
        \/ Rmtree(t)
        \/ ReadCsv(t)
        \/ OpenCsv(t)
        \/ CloseCsv(t)
        \/ TaskFail(t)
        \/ UpstreamFailed(t)

SpecDag == InitDag /\ [][NextDag]_vars

-----------------------------------------------------------------------------
(* Inputs with a reference table in which several rows may spell one name
   and disagree on its attributes *)

MaxRefRows == 2

\* reference rows, as tuples in the order of Cols(F_ds)
RefChoices ==
    {<<<<"9">>, n, <<"a">>, p[1], p[2], p[3]>> :
        n \in {<<"F">>, <<" ", "f">>},
        p \in {<<<<"r">>, <<"1">>, <<"0">>>>, <<<<"t">>, <<"0">>, <<"1">>>>}}

\* disease_symptom_list holds a row of f without attributes, patient_reports
\* a report of another disease
RefDirs ==
    {[f \in Files |->
        CASE f = F_ds -> MkTable(F_ds, ts)
          [] f = F_dsl -> MkTable(F_dsl, <<<<<<"f">>, <<"b">>>>>>)
          [] f = F_pr -> MkTable(F_pr, <<<<<<"0">>, <<"g">>, <<"x">>>>>>)
          [] OTHER -> MkTable(f, <<>>)] :
       ts \in {x \in SeqsUpTo(RefChoices, MaxRefRows) :
                 Cardinality(Range(x)) = Len(x)}}

InitMap ==
    /\ runs = 1
    /\ script \in {"src", "alt"}
    /\ run_pc = "prep_dsl"
    /\ clean \in RefDirs
    /\ prepared = EmptyMap
    /\ final = EmptyMap
    /\ pc = "idle"
    /\ next_row = 1
    /\ symptom_dict = EmptyMap
    /\ heap = EmptyMap
    /\ disease_dict = EmptyMap
    /\ processed = EmptyMap
    /\ ConvIdle
    /\ DagIdle

\* one run of the script's __main__ block, up to the merge
NextMap ==
    \/ PrepareDiseaseSymptomList
    \/ PrepareDiseaseSymptom
    \/ PrepareDiseasesWithSymptoms
    \/ PreparePatientReports
    \/ PreparePatientReportsAlt
    \/ PrepareTrain
    \/ PrepareTrainAlt
    \/ MergeDuckDB
    \/ MergePolars

SpecMap == InitMap /\ [][NextMap]_vars

-----------------------------------------------------------------------------
(* Runs of the script one after the other, each on the original files it
   finds (a file may be absent, or have a schema fault) *)

MaxRuns == 2

\* the row of a source whose name is a spelling of f, or the other one
RowFor(f, first) ==
    CHOOSE t \in RowChoices(f) :
        LET n == t[CHOOSE j \in 1..Len(Cols(f)) : Cols(f)[j] = SourceNameCol(f)]
        IN  (lower(strip(n)) = <<"f">>) = first

\* Diseases_Symptoms, patient_reports and train hold one row each
DirOf(first) ==
    [f \in Files |->
        MkTable(f, IF f \in {F_ds, F_pr, F_train}
                   THEN <<RowFor(f, first)>> ELSE <<>>)]

Without(dir, f) == [x \in (DOMAIN dir) \ {f} |-> dir[x]]

RunDirs ==
    UNION {{d, Without(d, F_dsl), Without(d, F_train),
            [d EXCEPT ![F_ds] = BreakTable(F_ds, @)]} :
           d \in {DirOf(TRUE), DirOf(FALSE)}}

\* __main__, clean_folders and clean_datasets_task: the clean folder is
\* removed and rebuilt from the original files; prepared, final and
\* processed are left as the earlier runs wrote them
StartRun ==
    /\ runs < MaxRuns
    /\ run_pc \in {"done", "failed"} /\ pc = "idle"
    /\ runs' = runs + 1
    /\ run_pc' = "prep_dsl"
    /\ clean' \in RunDirs \ {clean}
    /\ UNCHANGED <<script, prepared, final, idx_vars, conv_vars, dag_vars>>

InitRuns ==
    /\ runs = 1
    /\ script \in {"src", "alt"}
    /\ run_pc = "prep_dsl"
    /\ clean \in RunDirs
    /\ prepared = EmptyMap
    /\ final = EmptyMap
    /\ pc = "idle"
    /\ next_row = 1
    /\ symptom_dict = EmptyMap
    /\ heap = EmptyMap
    /\ disease_dict = EmptyMap
    /\ processed = EmptyMap
    /\ ConvIdle
    /\ DagIdle

NextRuns ==
    \/ StartRun
    \/ PrepareDiseaseSymptomList
    \/ PrepareDiseaseSymptom
    \/ PrepareDiseasesWithSymptoms
    \/ PreparePatientReports
    \/ PreparePatientReportsAlt
    \/ PrepareTrain
    \/ PrepareTrainAlt
    \/ MergeDuckDB
    \/ MergePolars

SpecRuns == InitRuns /\ [][NextRuns]_vars

-----------------------------------------------------------------------------
(* Inputs of the Index Builder: merged tables as merge_datasets_task leaves
   them, name-sorted, with normalized names *)

MaxRows == 3

MkRow(n, sy, d, t, c, h, u) ==
    [name |-> n, symptoms |-> sy, description |-> d, treatments |-> t,
     contagious |-> c, chronic |-> h, url |-> u]

IdxNames == {<<"f">>, <<"c">>}

IdxSymptoms == {<<"a">>, <<"a", ",", " ", "b">>}

\* <<description, treatments, contagious, chronic, url>>
IdxProfiles ==
    {<<E, E, E, E, E>>,
     <<<<"x">>, <<"r">>, <<"1">>, <<"0">>, <<"u">>>>,
     <<<<"y">>, <<"t">>, <<"0">>, <<" ", "Y", "e", "s">>, E>>,
     <<<<" ">>, E, <<"1", ".", "0">>, E, <<"h">>>>}

\* a second disease needs fewer attribute profiles than the first
IdxProfilesOf(n) ==
    IF n = <<"f">> THEN IdxProfiles
    ELSE {p \in IdxProfiles : p[1] \in {E, <<"x">>}}

IdxRows ==
    UNION {{MkRow(n, sy, p[1], p[2], p[3], p[4], p[5]) :
               sy \in IdxSymptoms, p \in IdxProfilesOf(n)} : n \in IdxNames}
    \cup {MkRow(<<"f">>, E, <<"x">>, <<"t">>, <<"1">>, <<"1">>, <<"h">>),
          MkRow(<<"f">>, <<"B", ",", ",", " ", "a">>, E, <<"\"", "r", "\"">>,
                E, <<"1">>, E)}

IdxTables ==
    {[cols |-> ColumnOrder, rows |-> rs] :
        rs \in {x \in SeqsUpTo(IdxRows, MaxRows) : IsNameSorted(x)}}

InitIdx ==
    /\ runs = 1
    /\ script = "src"
    /\ run_pc = "done"
    /\ clean = EmptyMap
    /\ prepared = EmptyMap
    /\ final \in {[f \in {MergedFile} |-> t] : t \in IdxTables}
    /\ pc = "idle"
    /\ next_row = 1
    /\ symptom_dict = EmptyMap
    /\ heap = EmptyMap
    /\ disease_dict = EmptyMap
    /\ processed = EmptyMap
    /\ ConvIdle
    /\ DagIdle

NextIdx == GenStart \/ GenRow \/ GenFinish

SpecIdx == InitIdx /\ [][NextIdx]_vars

-----------------------------------------------------------------------------
(* Inputs of convert_to_bool: merged tables of one row whose contagious and
   chronic cells are drawn from the spellings below *)

BoolInputs ==
    {NULL, E, <<"0">>, <<"1">>, <<"1", ".", "0">>, <<"1", ".", "0", "0">>,
     <<"2">>, <<" ", "1", "\t">>, <<"t", "r", "u", "e">>,
     <<"T", "r", "u", "e">>, <<" ", "T", "R", "U", "E", " ">>,
     <<"t">>, <<"y">>, <<"y", "e", "s">>, <<"Y", "E", "S", "\n">>,
     <<"n", "o">>, <<"n", "o", "n", "e">>, <<"N", "o", "n", "e">>,
     <<"o", "n">>, <<"y", "e", " ", "s">>}

InitBool ==
    /\ runs = 1
    /\ script = "src"
    /\ run_pc = "done"
    /\ clean = EmptyMap
    /\ prepared = EmptyMap
    /\ final \in {[f \in {MergedFile} |->
                    [cols |-> ColumnOrder,
                     rows |-> <<MkRow(<<"f">>, <<"a">>, E, E, c, h, E)>>]] :
                  c \in BoolInputs, h \in BoolInputs}
    /\ pc = "idle"
    /\ next_row = 1
    /\ symptom_dict = EmptyMap
    /\ heap = EmptyMap
    /\ disease_dict = EmptyMap
    /\ processed = EmptyMap
    /\ ConvIdle
    /\ DagIdle

SpecBool == InitBool /\ [][NextIdx]_vars

-----------------------------------------------------------------------------
(* Inputs of the converter: a binary matrix with a disease column and two
   symptom columns; a line may have too few or too many fields, a cell may be
   no integer *)

MaxBinRows == 2

ConvHeader == <<<<"d">>, <<"s">>, <<"t">>>>

ConvCells == {<<"1">>, <<"0">>, <<" ", "0", "1">>, <<"1", ".", "0">>, <<"x">>}

ConvLines ==
    {<<<<"f">>, a, b>> : a \in ConvCells, b \in ConvCells}
    \cup {<<>>, <<<<"f">>, <<"1">>>>, <<<<"f">>, <<"1">>, <<"1">>, <<"1">>>>}

InitConv ==
    /\ runs = 1
    /\ script = "src"
    /\ run_pc = "done"
    /\ clean = EmptyMap
    /\ prepared = EmptyMap
    /\ final = EmptyMap
    /\ pc = "idle"
    /\ next_row = 1
    /\ symptom_dict = EmptyMap
    /\ heap = EmptyMap
    /\ disease_dict = EmptyMap
    /\ processed = EmptyMap
    /\ csv_in \in {<<>>} \cup {<<ConvHeader>> \o ls :
                                ls \in SeqsUpTo(ConvLines, MaxBinRows)}
    /\ csv_out = <<>>
    /\ conv_pc = "idle"
    /\ conv_next = 1
    /\ DagIdle

NextConv == ConvStart \/ ConvRow \/ ConvFinish

SpecConv == InitConv /\ [][NextConv]_vars

-----------------------------------------------------------------------------
(* Properties of the Index Builder *)

\* the rows of the merged table generate_jsons reads, as it parses them
Tbl == IF MergedFile \in DOMAIN final THEN final[MergedFile].rows ELSE <<>>

RECURSIVE ParseAll(_)
ParseAll(rows) ==
    IF rows = <<>> THEN <<>>
    ELSE <<ParseRow(Head(rows))>> \o ParseAll(Tail(rows))

\* the rows as generate_jsons parses them (lines 23-31)
Parsed == ParseAll(Tbl)

\* number of rows the loop of generate_jsons has consumed
Consumed == IF pc = "idle" THEN 0 ELSE next_row - 1

\* rows among the first n of disease d whose symptom list contains s
Contrib(T, s, d, n) ==
    {k \in 1..n : T[k].disease = d /\ s \in Range(T[k].symptom_list)}

RowsOf(T, d, n) == {k \in 1..n : T[k].disease = d}

Diseases(T, n) == {T[k].disease : k \in 1..n}

Symptoms(T, n) == UNION {Range(T[k].symptom_list) : k \in 1..n}

Min(S) == CHOOSE x \in S : \A y \in S : x <= y

SymptomIndex == processed["symptom_search.json"]

DiseaseIndex == processed["disease_search.json"]

EntriesFor(s, d) ==
    IF s \in DOMAIN SymptomIndex
    THEN {j \in 1..Len(SymptomIndex[s]) : SymptomIndex[s][j].disease = d}
    ELSE {}

\* C1: in the written Symptom Index, for every (symptom, disease) pair that
\* two or more rows of the merged table carry, the entry's text, source_url
\* and treatment are each non-empty whenever some contributing row has a
\* non-empty description, url, treatments (fields as generate_jsons reads
\* them), whatever the order of the rows.
C1_NoDataLoss ==
    LET T == Parsed IN
      pc = "done" =>
        \A s \in Symptoms(T, Len(Tbl)), d \in Diseases(T, Len(Tbl)) :
          LET C == Contrib(T, s, d, Len(Tbl))
          IN  Cardinality(C) >= 2 =>
                /\ EntriesFor(s, d) # {}
                /\ \A j \in EntriesFor(s, d) :
                      LET e == SymptomIndex[s][j]
                      IN  /\ (\E k \in C : T[k].description # E) => e.text # E
                          /\ (\E k \in C : T[k].source_url # E) => e.source_url # E
                          /\ (\E k \in C : T[k].treatments # E) => e.treatment # E

\* a pair whose first row has no description, url or treatments and whose
\* later rows bring all three
C1_Witness ==
    LET T == Parsed IN
      /\ pc = "done"
      /\ \E s \in Symptoms(T, Len(Tbl)), d \in Diseases(T, Len(Tbl)) :
           LET C == Contrib(T, s, d, Len(Tbl))
               first == T[Min(C)]
           IN  /\ Cardinality(C) >= 2
               /\ first.description = E /\ first.source_url = E
               /\ first.treatments = E
               /\ \E k \in C : T[k].description # E
               /\ \E k \in C : T[k].source_url # E
               /\ \E k \in C : T[k].treatments # E

FillFields == {"text", "source_url", "treatment"}

\* C2: a step of the builder never changes a text, source_url or treatment
\* of a kept Disease-Info entry that is already non-empty; the only change
\* a later row makes to a kept entry is to fill a field that is still empty.
C2_FirstSeenWins ==
    [][\A r \in (DOMAIN heap) \cap (DOMAIN heap') :
          /\ \A fld \in FillFields :
                heap'[r][fld] # heap[r][fld] => heap[r][fld] = E
          /\ heap'[r].disease = heap[r].disease
          /\ heap'[r].contagious = heap[r].contagious
          /\ heap'[r].chronic = heap[r].chronic]_vars

\* two consumed rows of one pair disagree on a non-empty description, and
\* the kept entry still has the first one
C2_Witness ==
    LET T == Parsed IN
      \E s \in DOMAIN symptom_dict :
        \E j \in 1..Len(symptom_dict[s]) :
          LET d == symptom_dict[s][j].disease
              C == Contrib(T, s, d, Consumed)
          IN  /\ Cardinality(C) >= 2
              /\ T[Min(C)].description # E
              /\ \E k \in C : T[k].description \notin {E, T[Min(C)].description}
              /\ heap[symptom_dict[s][j].ref].text = T[Min(C)].description

\* C8: under every symptom key there is at most one entry per disease,
\* exactly one for each (symptom, disease) pair some consumed row carries,
\* and the kept entry is the disease_info object created from the first
\* such row: its disease, contagious and chronic are that row's, and so is
\* each of text, source_url, treatment that the row has non-empty.
C8_OneEntryPerPair ==
    LET T == Parsed IN
      /\ \A s \in DOMAIN symptom_dict :
           \A j, k \in 1..Len(symptom_dict[s]) :
              symptom_dict[s][j].disease = symptom_dict[s][k].disease => j = k
      /\ \A s \in Symptoms(T, Consumed), d \in Diseases(T, Consumed) :
           LET C == Contrib(T, s, d, Consumed)
           IN  C # {} =>
                 /\ s \in DOMAIN symptom_dict
                 /\ \E j \in 1..Len(symptom_dict[s]) :
                       /\ symptom_dict[s][j].disease = d
                       /\ symptom_dict[s][j].ref = Min(C)
      /\ pc = "done" =>
           \A s \in DOMAIN SymptomIndex :
             /\ Len(SymptomIndex[s]) = Len(symptom_dict[s])
             /\ \A j \in 1..Len(SymptomIndex[s]) :
                  LET e == SymptomIndex[s][j]
                      first == T[Min(Contrib(T, s, e.disease, Len(Tbl)))]
                  IN  /\ Cardinality(EntriesFor(s, e.disease)) = 1
                      /\ e.contagious = first.contagious
                      /\ e.chronic = first.chronic
                      /\ first.description # E => e.text = first.description
                      /\ first.source_url # E => e.source_url = first.source_url
                      /\ first.treatments # E => e.treatment = first.treatments

\* two rows carry the same (symptom, disease) pair, a third row carries the
\* symptom for another disease, and the index is written
C8_Witness ==
    LET T == Parsed IN
      /\ pc = "done"
      /\ \E s \in DOMAIN SymptomIndex, d \in Diseases(T, Len(Tbl)) :
           /\ Cardinality(Contrib(T, s, d, Len(Tbl))) >= 2
           /\ Cardinality(EntriesFor(s, d)) = 1
           /\ Len(SymptomIndex[s]) = 2

IsStrictlyAscending(xs) ==
    \A k \in 1..(Len(xs) - 1) : StrLess(xs[k], xs[k + 1])

\* C9: in the written Disease Index the keys are the diseases of the rows
\* and, for every disease d, symptoms is the duplicate-free ascending
\* sequence of the symptom tokens of the rows of d, treatments is the set
\* of the non-empty treatments of the rows of d, and sources is the set of
\* their non-empty urls (fields as generate_jsons reads them).
C9_DiseaseIndexUnion ==
    LET T == Parsed IN
      pc = "done" =>
        /\ DOMAIN DiseaseIndex = Diseases(T, Len(Tbl))
        /\ \A d \in DOMAIN DiseaseIndex :
             LET R == RowsOf(T, d, Len(Tbl))
             IN  /\ IsStrictlyAscending(DiseaseIndex[d].symptoms)
                 /\ Range(DiseaseIndex[d].symptoms)
                       = UNION {Range(T[k].symptom_list) : k \in R}
                 /\ DiseaseIndex[d].treatments
                       = {T[k].treatments : k \in R} \ {E}
                 /\ DiseaseIndex[d].sources
                       = {T[k].source_url : k \in R} \ {E}

\* a disease with three rows that bring two symptoms (one of them twice),
\* two different treatments and an empty one, and two different urls
C9_Witness ==
    LET T == Parsed IN
      /\ pc = "done"
      /\ \E d \in DOMAIN DiseaseIndex :
           LET R == RowsOf(T, d, Len(Tbl))
           IN  /\ Cardinality(R) >= 3
               /\ Len(DiseaseIndex[d].symptoms) = 2
               /\ T[Min(R)].treatments = E
               /\ Cardinality(DiseaseIndex[d].treatments) = 2
               /\ Cardinality(DiseaseIndex[d].sources) = 2

\* a value of the row is resolved when it is not unknown/empty
Resolved(T, raw, d, fld) ==
    {k \in RowsOf(T, d, Len(raw)) : strip(RowGet(raw[k], fld, E)) # E}

\* C10: in the written Disease Index, contagious (and chronic) of a disease
\* with at least one row whose value is resolved is the boolean of the
\* first such row in table order: a resolved value is preferred to an
\* unknown one, and among resolved values the first wins.
C10_PreferResolved ==
    LET T == Parsed IN
      pc = "done" =>
        \A d \in DOMAIN DiseaseIndex, fld \in {"contagious", "chronic"} :
          LET R == Resolved(T, Tbl, d, fld)
          IN  R # {} => DiseaseIndex[d][fld] = T[Min(R)][fld]

-----------------------------------------------------------------------------
(* Properties of the Dataset Merger and of the Source Adapters *)

Merged == MergedFile \in DOMAIN final

PreparedRows == UNION {Range(prepared[f].rows) : f \in DOMAIN prepared}

Unknown(v) == v = NULL \/ v = E

Cell(r, c) == IF c \in DOMAIN r THEN r[c] ELSE NULL

Seven(r) == [c \in Range(ColumnOrder) |-> Cell(r, c)]

Attributes == {"contagious", "chronic", "treatments"}

\* the reference rows of a normalized name, in table order
RefRows == IF F_ds \in DOMAIN clean THEN clean[F_ds].rows ELSE <<>>

RefOfName(n) ==
    {k \in 1..Len(RefRows) : normalize_name(Cell(RefRows[k], "name")) = n}

Max(S) == CHOOSE x \in S : \A y \in S : x >= y

\* the Attribute Backfill Map's value of attribute c for name n
MapValue(n, c) == str(Cell(RefRows[Max(RefOfName(n))], c))

\* m is what the claim says the merge makes of the adapted row r
BackfilledImage(r, m) ==
    /\ Cell(m, "name") = normalize_name(Cell(r, "name"))
    /\ \A c \in {"symptoms", "description", "url"} : Cell(m, c) = Cell(r, c)
    /\ \A c \in Attributes :
          IF ~Unknown(Cell(r, c)) THEN Cell(m, c) = Cell(r, c)
          ELSE IF RefOfName(Cell(m, "name")) # {}
               THEN Cell(m, c) = MapValue(Cell(m, "name"), c)
               ELSE Unknown(Cell(m, c))

\* C3: after a merge, every adapted row has its image in the merged table:
\* the name normalized and each of contagious, chronic, treatments that was
\* empty/unknown equal to the Attribute Backfill Map's value for that name
\* when the map has an entry, and still unknown when it has none.
C3_Backfill ==
    (run_pc = "done" /\ Merged) =>
        \A r \in PreparedRows : \E m \in Range(Tbl) : BackfilledImage(r, m)

\* C4: the merged table never holds two rows that are identical in all
\* seven canonical fields.
C4_NoDuplicateRows ==
    Merged =>
        \A j, k \in 1..Len(Tbl) : Seven(Tbl[j]) = Seven(Tbl[k]) => j = k

\* C5: no row with an empty name is in the merged table, the Disease Index
\* has no empty key and no entry of the Symptom Index has an empty disease.
C5_NoEmptyName ==
    /\ Merged => \A k \in 1..Len(Tbl) : ~Unknown(Cell(Tbl[k], "name"))
    /\ pc = "done" =>
         /\ E \notin DOMAIN DiseaseIndex
         /\ \A s \in DOMAIN SymptomIndex :
              \A j \in 1..Len(SymptomIndex[s]) : SymptomIndex[s][j].disease # E

\* C6: every adapted table and the merged table have exactly the seven
\* canonical columns, in canonical order.
C6_CanonicalColumns ==
    /\ \A f \in DOMAIN prepared : prepared[f].cols = ColumnOrder
    /\ Merged => final[MergedFile].cols = ColumnOrder

\* C7: executing merge_datasets_task again on the same adapted tables and
\* the same reference table writes the same merged table, row for row.
C7_MergeDeterministic ==
    [][(/\ run_pc = "done" /\ run_pc' = "done"
        /\ prepared' = prepared /\ clean' = clean
        /\ Merged /\ MergedFile \in DOMAIN final')
       => final' = final]_vars

-----------------------------------------------------------------------------
(* Properties of convert_to_bool *)

\* the text csv.DictReader yields for a cell
CellText(v) == IF v = NULL THEN E ELSE v

Truthy(v) ==
    lower(strip(CellText(v))) \in
        {<<"1">>, <<"1", ".", "0">>, <<"t", "r", "u", "e">>, <<"y", "e", "s">>}

\* C11: the boolean generate_jsons resolves for a contagious or chronic cell
\* is true exactly when the cell, trimmed of surrounding whitespace and
\* lowercased, is one of "1", "1.0", "true", "yes"; it is false for every
\* other cell, the empty/unknown one, "0" and "none" included.
C11_BooleanResolution ==
    \A k \in 1..Consumed :
        /\ heap[k].contagious = Truthy(Tbl[k].contagious)
        /\ heap[k].chronic = Truthy(Tbl[k].chronic)

\* an upper-case, padded truthy spelling next to "none"
C11_Witness ==
    /\ pc = "done"
    /\ Tbl[1].contagious = <<" ", "T", "R", "U", "E", " ">>
    /\ Tbl[1].chronic = <<"n", "o", "n", "e">>
    /\ processed["symptom_search.json"][<<"a">>][1].contagious = TRUE
    /\ processed["symptom_search.json"][<<"a">>][1].chronic = FALSE

-----------------------------------------------------------------------------
(* Further properties of the Dataset Merger *)

\* the name of a merged row as write_csv writes it (a null is an empty field)
NameText(r) == CellText(Cell(r, "name"))

\* C12: the merged table, as written, is ordered by name ascending: the names
\* of every two consecutive rows are in lexicographic order.
C12_SortedByName ==
    Merged =>
        \A k \in 1..(Len(Tbl) - 1) :
            StrLeq(NameText(Tbl[k]), NameText(Tbl[k + 1]))

\* a table of the polars merger with three rows, two different names and a
\* row the backfill has changed
C12_Witness ==
    /\ Merged /\ script = "alt" /\ run_pc = "done"
    /\ Len(Tbl) >= 3
    /\ \E j, k \in 1..Len(Tbl) : StrLess(NameText(Tbl[j]), NameText(Tbl[k]))
    /\ \E r \in PreparedRows :
          /\ Unknown(Cell(r, "contagious"))
          /\ RefOfName(normalize_name(Cell(r, "name"))) # {}

SourceNames ==
    UNION {{clean[f].rows[k][SourceNameCol(f)] : k \in 1..Len(clean[f].rows)} :
             f \in DOMAIN clean}

RECURSIVE SkipSpaces(_)
SkipSpaces(s) ==
    IF s # <<>> /\ IsSpace(Head(s)) THEN SkipSpaces(Tail(s)) ELSE s

\* every run of whitespace becomes one underscore
RECURSIVE CollapseRuns(_)
CollapseRuns(s) ==
    IF s = <<>> THEN <<>>
    ELSE IF IsSpace(Head(s)) THEN <<"_">> \o CollapseRuns(SkipSpaces(s))
    ELSE <<Head(s)>> \o CollapseRuns(Tail(s))

NormalForm(s) == CollapseRuns(lower(strip(s)))

\* C13: the names of the merged table are the source names trimmed,
\* lowercased and with every internal run of whitespace replaced by a single
\* underscore, and normalizing such a name again leaves it unchanged.
C13_NameNormalization ==
    (run_pc = "done" /\ Merged) =>
        /\ {NameText(Tbl[k]) : k \in 1..Len(Tbl)}
              = {NormalForm(n) : n \in SourceNames}
        /\ \A k \in 1..Len(Tbl) :
              normalize_name(NameText(Tbl[k])) = NameText(Tbl[k])

-----------------------------------------------------------------------------
(* Further properties of the Source Adapters *)

\* each '|' rewritten to ', '
RECURSIVE PipesToCommas(_)
PipesToCommas(s) ==
    IF s = <<>> THEN <<>>
    ELSE (IF Head(s) = "|" THEN <<",", " ">> ELSE <<Head(s)>>)
            \o PipesToCommas(Tail(s))

HasPipe(v) == "|" \in Range(CellText(v))

TrainSymptomsRewritten ==
    F_train \in DOMAIN prepared =>
        {Cell(r, "symptoms") : r \in Range(prepared[F_train].rows)}
          = {PipesToCommas(x["symptom_list"]) : x \in Range(clean[F_train].rows)}

\* C14: in every adapted table no symptoms or treatments value contains '|',
\* and the symptoms adapted from the train file are the source values with
\* each '|' rewritten to ', '.
C14_NoPipeSeparator ==
    /\ \A r \in PreparedRows :
          ~HasPipe(Cell(r, "symptoms")) /\ ~HasPipe(Cell(r, "treatments"))
    /\ TrainSymptomsRewritten

\* the positions of the script after the adapter of file f has returned
AfterAdapter(f) ==
    CASE f = F_dsl -> {"prep_ds", "prep_dws", "prep_pr", "prep_train",
                       "merge", "done"}
      [] f = F_ds -> {"prep_dws", "prep_pr", "prep_train", "merge", "done"}
      [] f = F_dws -> {"prep_pr", "prep_train", "merge", "done"}
      [] f = F_pr -> {"prep_train", "merge", "done"}
      [] OTHER -> {"merge", "done"}

LacksNameSource(f) == f \in DOMAIN clean /\ ~HasCol(clean[f], SourceNameCol(f))

\* C15: when a source table lacks the column that becomes name, its adapter
\* produces no adapted table and the run stops there; it never goes on with
\* a default name column.  (The abort is the script stopping; the class of
\* the raised error is not part of the state.)
C15_SchemaFailFast ==
    \A f \in Files :
        LacksNameSource(f) =>
            f \notin DOMAIN prepared /\ run_pc \notin AfterAdapter(f)

-----------------------------------------------------------------------------
(* Properties of runs *)

\* C16: a run that fails leaves the final location as the last successful
\* run wrote it: the failing step does not delete or change the canonical
\* table, and never is one index file present without the other.
C16_AtomicRun ==
    /\ [][(Merged /\ run_pc' = "failed") => final' = final]_vars
    /\ [](("symptom_search.json" \in DOMAIN processed)
             <=> ("disease_search.json" \in DOMAIN processed))

\* the merged row m comes from row x of the source file f (a source without
\* the column that becomes name gives the default name)
DerivedFrom(m, f, x) ==
    /\ NameText(m) = IF SourceNameCol(f) \in DOMAIN x
                     THEN normalize_name(x[SourceNameCol(f)]) ELSE E
    /\ f \in {F_dsl, F_ds, F_dws} => Cell(m, "symptoms") = x["symptoms"]
    /\ f = F_pr => Cell(m, "description") = x["text"]
    /\ f = F_train =>
          /\ Cell(m, "symptoms") = PipesToCommas(x["symptom_list"])
          /\ Cell(m, "description") = x["generated_sentence_from_symptoms"]
          /\ Cell(m, "url") = x["source_url"]

\* C17: the merged table a run has written holds only rows derived from the
\* source tables of that run; a table prepared by an earlier run whose source
\* is absent or changed now contributes no row.
C17_NoStateCrossesRuns ==
    (run_pc = "done" /\ Merged) =>
        \A m \in Range(Tbl) :
            \E f \in DOMAIN clean : \E x \in Range(clean[f].rows) :
                DerivedFrom(m, f, x)

\* a second run, on changed sources, that has written its merged table while
\* the prepared folder was left by the first run
C17_Witness ==
    /\ runs = 2 /\ run_pc = "done" /\ Merged
    /\ Len(Tbl) >= 2

\* C18: when a source file is absent (and no present file is faulty) the run
\* does not abort, and the merged table it writes is built from the rows of
\* the sources that are present.
C18_MissingInputTolerated ==
    (/\ \E f \in Files : f \notin DOMAIN clean
     /\ \A f \in DOMAIN clean : HasCol(clean[f], SourceNameCol(f)))
    => /\ run_pc # "failed"
       /\ (run_pc = "done" /\ Merged) =>
             {NameText(m) : m \in Range(Tbl)}
               = UNION {{normalize_name(x[SourceNameCol(f)]) :
                           x \in Range(clean[f].rows)} : f \in DOMAIN clean}

-----------------------------------------------------------------------------
(* Properties of the patient-report adapter *)

\* r is what the adapter makes of the patient report x: symptoms is what the
\* extractor returned ([], ['a'] or ['b', 'a']) joined by ', ', the empty
\* string when the text is empty; the other fields are those of x (the name
\* normalized, lines 205-208) and the defaults of add_col_to_df
PatientImage(x, r) ==
    /\ r["description"] = x["text"]
    /\ r["name"] = normalize_name(x["label"])
    /\ r["treatments"] = E /\ r["url"] = E
    /\ r["contagious"] = NULL /\ r["chronic"] = NULL
    /\ r["symptoms"] \in (IF strip(x["text"]) = E
                          THEN {E}
                          ELSE {E, <<"a">>, <<"b", ",", " ", "a">>})

\* C19: the patient-report adapter finishes whatever the extractor returns;
\* a row whose description is empty, or for which the extractor returns
\* nothing, is adapted with symptoms equal to the empty string and its other
\* fields unchanged; otherwise symptoms is the extractor's elements joined by
\* ', ' in the returned order.
C19_PatientSymptoms ==
    /\ (script = "src" /\ run_pc = "prep_train") => F_pr \in DOMAIN prepared
    /\ (script = "src" /\ F_pr \in DOMAIN prepared) =>
          /\ \A x \in Range(clean[F_pr].rows) :
                \E r \in Range(prepared[F_pr].rows) : PatientImage(x, r)
          /\ \A r \in Range(prepared[F_pr].rows) :
                \E x \in Range(clean[F_pr].rows) : PatientImage(x, r)

\* a report with a text for which the extractor has returned nothing
C19_Witness ==
    /\ script = "src" /\ F_pr \in DOMAIN prepared
    /\ \E r \in Range(prepared[F_pr].rows) :
          r["description"] = <<"x">> /\ r["symptoms"] = E

-----------------------------------------------------------------------------
(* Properties of the binary matrix converter *)

\* the cell is an integer and that integer is 1
IsOne(v) == ~RaisesValueError(v) /\ int(v) = 1

\* the symptom columns of line k whose cell is 1
OnesOf(k) == {i \in 2..Len(csv_in[k]) : IsOne(csv_in[k][i])}

\* the data lines with the header's field count and at least one cell at 1
Yielding ==
    {k \in 2..Len(csv_in) :
        Len(csv_in[k]) = Len(csv_in[1]) /\ OnesOf(k) # {}}

\* the header names of the columns in C, in header order, joined by ', '
RECURSIVE NamesOf(_, _)
NamesOf(header, C) ==
    IF C = {} THEN <<>>
    ELSE LET i == CHOOSE x \in C : \A y \in C : x <= y
         IN  IF C = {i} THEN header[i]
             ELSE header[i] \o <<",", " ">> \o NamesOf(header, C \ {i})

\* C20: the conversion of a file with a header never aborts; a line whose
\* field count differs from the header's gives no output row, a cell that is
\* no integer counts as not active, and every other line with a cell at 1
\* gives exactly one output row, in input order: its disease, the header
\* names of its cells at 1 in header order joined by ', ', and their number.
C20_MalformedRowsSkipped ==
    /\ csv_in # <<>> => conv_pc # "failed"
    /\ conv_pc = "done" =>
          /\ Len(csv_out) = 1 + Cardinality(Yielding)
          /\ \A k \in Yielding :
                csv_out[1 + Cardinality({q \in Yielding : q <= k})]
                  = <<csv_in[k][1], NamesOf(csv_in[1], OnesOf(k)),
                      IntStr(Cardinality(OnesOf(k)))>>

\* a line with too many fields, then a line with a cell that is no integer
\* and a cell at 1
C20_Witness ==
    /\ conv_pc = "done"
    /\ csv_in = <<ConvHeader, <<<<"f">>, <<"1">>, <<"1">>, <<"1">>>>,
                  <<<<"f">>, <<"x">>, <<" ", "0", "1">>>>>>
    /\ csv_out[2] = <<<<"f">>, <<"t">>, <<"1">>>>
    /\ Len(csv_out) = 2

-----------------------------------------------------------------------------
(* Properties of the Attribute Backfill Map *)

\* the names a lookup may be made for: those of the merged rows
LookupNames == {Cell(Tbl[k], "name") : k \in 1..Len(Tbl)} \ {NULL}

\* C21: the Attribute Backfill Map built from the reference table has a key
\* exactly for each normalized name of the table; an entry holds the
\* contagious, chronic and treatments of the last row, in table order, of
\* that name; the lookup of a name without a key yields the empty value, and
\* a merged row of such a name is left without attributes.
C21_BackfillMapBuild ==
    CanBuildMap(clean) =>
        LET disease_map == create_disease_contagious_chronic_map(clean)
        IN  /\ DOMAIN disease_map =
                  {normalize_name(Cell(RefRows[k], "name")) :
                      k \in 1..Len(RefRows)}
            /\ \A n \in DOMAIN disease_map : \A c \in Attributes :
                  disease_map[n][c] = Cell(RefRows[Max(RefOfName(n))], c)
            /\ \A n \in LookupNames \ DOMAIN disease_map : \A c \in Attributes :
                  Mapped(disease_map, n, c) = E
            /\ (script = "alt" /\ Merged) =>
                  \A m \in Range(Tbl) :
                      Cell(m, "name") \in LookupNames \ DOMAIN disease_map =>
                          \A c \in Attributes : Cell(m, c) = E

\* the polars merger has used a map built from two reference rows that spell
\* one name and disagree: the row without attributes carries the later ones
C21_Witness ==
    /\ script = "alt" /\ run_pc = "done" /\ Merged
    /\ \E j, k \in 1..Len(RefRows) :
          /\ j < k
          /\ normalize_name(RefRows[j]["name"]) = normalize_name(RefRows[k]["name"])
          /\ RefRows[j]["contagious"] # RefRows[k]["contagious"]
          /\ \E m \in Range(Tbl) :
                /\ m["name"] = normalize_name(RefRows[k]["name"])
                /\ m["symptoms"] = <<"b">>
                /\ m["contagious"] = RefRows[k]["contagious"]
    /\ \E m \in Range(Tbl) : m["name"] = <<"g">> /\ m["treatments"] = E

-----------------------------------------------------------------------------
(* Properties of the task scheduling *)

\* the task has been started at least once
Started(t) == task_state[t] \in {"running", "success", "up_for_retry", "failed"}

Intermediate == {F_sep1, F_sep2, F_all, F_mst, F_final, F_dwt}

\* C22: in the DAG 'data_preparation_pipeline' a started task has all its
\* upstream tasks completed, create_final_dataset is started only when every
\* other task has completed, and every intermediate file a task has read was
\* complete and written by an ancestor of the task in this run.
C22_StageOrdering ==
    module = DagModule =>
        /\ \A t \in Tasks : Started(t) =>
              \A u \in Ancestors(t) : task_state[u] = "success"
        /\ Started("create_final_dataset") =>
              \A u \in Tasks \ {"create_final_dataset"} :
                  task_state[u] = "success"
        /\ \A t \in Tasks : \A p \in DOMAIN loaded[t] :
              p[2] \in Intermediate =>
                  /\ loaded[t][p].state = "complete"
                  /\ loaded[t][p].by \in Ancestors(t)

\* the DAG has run to its end over files an earlier run had left, with a
\* retry on the way; the last task has read the files of its ancestors
C22_Witness ==
    /\ module = DagModule
    /\ task_state["create_final_dataset"] = "success"
    /\ try_number["merge_separated_symptoms"] = 2
    /\ try_number["create_final_dataset"] = 2
    /\ loaded["create_final_dataset"][<<CLEAN_DIR, F_final>>].by =
           "process_train_data"
    /\ loaded["create_final_dataset"][<<CLEAN_DIR, F_dwt>>].by =
           "process_treatments"
    /\ loaded["merge_separated_symptoms"][<<DATA_DIR, F_sep2>>].by =
           "separate_symptoms_from_diseases"
    /\ data_dir[<<FINAL_DIR, "">>].by = "earlier_run"

HasDuplicates(rows) ==
    \E j, k \in 1..Len(rows) : j < k /\ rows[j] = rows[k]

\* C25: all_separated_symptoms.csv, once written by merge_separated_symptoms
\* (DAG file) or merge_separated_symptoms_task (task script), holds the rows
\* of both separated tables and no (disease, symptom) row twice.
C25_MergedSeparatedDeduplicated ==
    \A p \in DOMAIN data_dir :
        (/\ p[2] = F_all
         /\ data_dir[p].state = "complete"
         /\ data_dir[p].by \in Tasks) =>
            /\ Range(data_dir[p].rows) =
                  Range(data_dir[<<SeparatedDir, F_sep1>>].rows)
                  \cup Range(data_dir[<<SeparatedDir, F_sep2>>].rows)
            /\ ~HasDuplicates(data_dir[p].rows)

\* the files a task reads and the files it writes
OpsOf(t, kinds) ==
    {Program(t)[k].path : k \in {j \in 1..Len(Program(t)) :
                                    Program(t)[j].op \in kinds}}

Reads(t) == OpsOf(t, {"read_csv"})

Writes(t) == OpsOf(t, {"open", "close"})

\* neither task is upstream of the other: the scheduler may run both at once
Concurrent(t, u) ==
    t # u /\ t \notin Ancestors(u) /\ u \notin Ancestors(t)

ConcurrentPairs == {x \in DagTasks \X DagTasks : Concurrent(x[1], x[2])}

\* a pair of tasks writing one file, or one reading a file the other writes
Conflicts ==
    {x \in DagTasks \X DagTasks :
        \/ Writes(x[1]) \cap Writes(x[2]) # {}
        \/ Reads(x[1]) \cap Writes(x[2]) # {}}

\* the separated file f as computed from the original file g alone
SeparatedFrom(f, g) ==
    LET rows == explode(read_csv(data_dir[<<DATA_DIR, g>>].rows))
    IN  csv_text(IF f = F_sep1 THEN drop_columns(rows, "symptoms")
                 ELSE select(rows, {"disease", "symptom"}))

\* C30: the only tasks of the DAG that may run at the same time are the two
\* separations; they write different files, neither reads a file the other
\* writes, and whatever their interleaving both files are complete and hold
\* the rows computed from their own original file when the merge starts.
C30_NoWriteConflict ==
    module = DagModule =>
        /\ ConcurrentPairs =
              {<<"separate_symptoms_from_disease_list",
                 "separate_symptoms_from_diseases">>,
               <<"separate_symptoms_from_diseases",
                 "separate_symptoms_from_disease_list">>}
        /\ ConcurrentPairs \cap Conflicts = {}
        /\ Started("merge_separated_symptoms") =>
              /\ data_dir[<<DATA_DIR, F_sep1>>] =
                    [state |-> "complete",
                     by |-> "separate_symptoms_from_disease_list",
                     rows |-> SeparatedFrom(F_sep1, F_dsl)]
              /\ data_dir[<<DATA_DIR, F_sep2>>] =
                    [state |-> "complete",
                     by |-> "separate_symptoms_from_diseases",
                     rows |-> SeparatedFrom(F_sep2, F_dws)]

\* both separations are in the middle of their to_csv at the same time, the
\* first one in its second try
C30_Witness ==
    /\ module = DagModule
    /\ task_state["separate_symptoms_from_disease_list"] = "running"
    /\ task_state["separate_symptoms_from_diseases"] = "running"
    /\ try_number["separate_symptoms_from_disease_list"] = 2
    /\ data_dir[<<DATA_DIR, F_dsl>>].rows # <<>>
    /\ data_dir[<<DATA_DIR, F_dws>>].rows # <<>>
    /\ <<DATA_DIR, F_sep1>> \in DOMAIN data_dir
    /\ <<DATA_DIR, F_sep2>> \in DOMAIN data_dir
    /\ data_dir[<<DATA_DIR, F_sep1>>] =
           [state |-> "partial", by |-> "separate_symptoms_from_disease_list",
            rows |-> <<>>]
    /\ data_dir[<<DATA_DIR, F_sep2>>] =
           [state |-> "partial", by |-> "separate_symptoms_from_diseases",
            rows |-> <<>>]

-----------------------------------------------------------------------------
(* Properties of the Index Builder: tokens, provenance and consistency *)

\* the pieces of a symptoms field between its ", " separators, trimmed and
\* lowercased, without the empty ones
TokensOf(row) ==
    LET pieces == str_split(clean_and_strip(RowGet(row, "symptoms", E)),
                            <<",", " ">>, <<>>)
    IN  {lower(strip(pieces[k])) : k \in 1..Len(pieces)} \ {E}

\* C23: the symptom tokens are the pieces of the symptoms field split on
\* ", ", trimmed and lowercased, the empty ones discarded: these are the keys
\* of the Symptom Index and the symptoms of the Disease Index, so no key is
\* empty, has leading or trailing whitespace or an uppercase character, and
\* no symptoms list holds the empty token.
C23_SymptomTokens ==
    pc = "done" =>
        /\ DOMAIN SymptomIndex = UNION {TokensOf(Tbl[k]) : k \in 1..Len(Tbl)}
        /\ \A d \in DOMAIN DiseaseIndex :
              Range(DiseaseIndex[d].symptoms) =
                  UNION {TokensOf(Tbl[k]) : k \in RowsOf(Parsed, d, Len(Tbl))}
        /\ \A key \in DOMAIN SymptomIndex :
              key # E /\ strip(key) = key /\ lower(key) = key
        /\ \A d \in DOMAIN DiseaseIndex : E \notin Range(DiseaseIndex[d].symptoms)

-----------------------------------------------------------------------------
(* Properties of the Merger: row preservation and the frame of backfill *)

\* the seven canonical fields of an adapted row, its name normalized
Normalized(r) ==
    [c \in Range(ColumnOrder) |->
        IF c = "name" THEN normalize_name(Cell(r, "name")) ELSE Cell(r, c)]

InputRows == {Normalized(r) : r \in PreparedRows}

\* the merged row m is the input row x, up to attributes x does not know
KeptAs(x, m) ==
    \A c \in Range(ColumnOrder) :
        Cell(m, c) = x[c] \/ (c \in Attributes /\ Unknown(x[c]))

\* C24: the merge removes exact duplicates only: every input row with a
\* non-empty name is in the merged table, two input rows that differ in one
\* of the seven canonical fields after name normalization are two rows of
\* the merged table, also when they name the same disease.
C24_RowPreservation ==
    (run_pc = "done" /\ Merged) =>
        /\ \A x \in InputRows : ~Unknown(x["name"]) =>
              \E k \in 1..Len(Tbl) : KeptAs(x, Tbl[k])
        /\ \A x, y \in InputRows :
              (x # y /\ ~Unknown(x["name"]) /\ ~Unknown(y["name"])) =>
                  \E j, k \in 1..Len(Tbl) :
                      j # k /\ KeptAs(x, Tbl[j]) /\ KeptAs(y, Tbl[k])
        /\ Len(Tbl) >= Cardinality(InputRows)

\* two rows of one disease that differ are both in the merged table, and two
\* adapted rows that are the same after name normalization have left one row
C24_Witness ==
    /\ run_pc = "done" /\ Merged
    /\ \E x, y \in PreparedRows :
          /\ x # y /\ Normalized(x) = Normalized(y)
          /\ Cardinality({k \in 1..Len(Tbl) : Seven(Tbl[k]) = Normalized(x)}) = 1
    /\ \E j, k \in 1..Len(Tbl) :
          /\ Tbl[j]["name"] = Tbl[k]["name"]
          /\ Tbl[j]["symptoms"] = <<"a">>
          /\ Tbl[k]["symptoms"] = <<"b">>


\* the rows of the polars merger before its backfill step: the adapted rows
\* over the columns of the merged table, names normalized, duplicates removed
BeforeBackfill ==
    {[c \in Range(final[MergedFile].cols) |->
         IF c = "name" THEN normalize_name(Cell(r, "name")) ELSE Cell(r, c)] :
       r \in PreparedRows}

\* m is x with nothing changed but unknown attribute cells
FrameOf(x, m) ==
    /\ DOMAIN m = DOMAIN x
    /\ \A c \in DOMAIN x :
          (c \notin Attributes \/ ~Unknown(x[c])) => m[c] = x[c]

\* C29: the backfill step of the polars merger changes nothing but empty or
\* unknown contagious, chronic and treatments cells: every other cell of
\* every row is as before the step, also when the Attribute Backfill Map
\* holds another value for the row's name, and the number of rows is the same.
C29_BackfillFrame ==
    (script = "alt" /\ run_pc = "done" /\ Merged) =>
        /\ Len(Tbl) = Cardinality(BeforeBackfill)
        /\ \A x \in BeforeBackfill : \E k \in 1..Len(Tbl) : FrameOf(x, Tbl[k])
        /\ \A k \in 1..Len(Tbl) : \E x \in BeforeBackfill : FrameOf(x, Tbl[k])

\* the map holds treatments t for f (the last reference row); the merged
\* table keeps the r of the first reference row and gives t to the row of f
\* that had no treatments
C29_Witness ==
    /\ script = "alt" /\ run_pc = "done" /\ Merged
    /\ CanBuildMap(clean)
    /\ <<"f">> \in DOMAIN create_disease_contagious_chronic_map(clean)
    /\ create_disease_contagious_chronic_map(clean)[<<"f">>].treatments = <<"t">>
    /\ \E j, k \in 1..Len(Tbl) :
          /\ Tbl[j]["name"] = <<"f">> /\ Tbl[j]["treatments"] = <<"r">>
          /\ Tbl[j]["contagious"] = <<"1">>
          /\ Tbl[k]["name"] = <<"f">> /\ Tbl[k]["symptoms"] = <<"b">>
          /\ Tbl[k]["treatments"] = <<"t">>


-----------------------------------------------------------------------------
(* Properties of the Index Builder: provenance and consistency of the two
   indices *)

\* C26: in the written Symptom Index every non-empty text, source_url and
\* treatment of the entry of disease d under symptom s is the description,
\* url or treatments of a row of d whose symptom list contains s: a row that
\* does not list s leaves the entry (s, d) as it is.
C26_EntryProvenance ==
    LET T == Parsed IN
      pc = "done" =>
        \A s \in DOMAIN SymptomIndex : \A j \in 1..Len(SymptomIndex[s]) :
          LET e == SymptomIndex[s][j]
              C == Contrib(T, s, e.disease, Len(Tbl))
          IN  /\ e.text # E => \E k \in C : T[k].description = e.text
              /\ e.source_url # E => \E k \in C : T[k].source_url = e.source_url
              /\ e.treatment # E => \E k \in C : T[k].treatments = e.treatment


\* the diseases named by the entries of the Symptom Index
NamedDiseases ==
    UNION {{SymptomIndex[s][j].disease : j \in 1..Len(SymptomIndex[s])} :
              s \in DOMAIN SymptomIndex}

\* the symptoms listed in the Disease Index
ListedSymptoms ==
    UNION {Range(DiseaseIndex[d].symptoms) : d \in DOMAIN DiseaseIndex}

\* C27: the two written indices agree: the Symptom Index has an entry of
\* disease d under symptom s exactly when s is in the symptoms of d in the
\* Disease Index, and every disease an entry names is a key of the Disease
\* Index.
C27_CrossIndexConsistency ==
    pc = "done" =>
        /\ NamedDiseases \subseteq DOMAIN DiseaseIndex
        /\ \A s \in (DOMAIN SymptomIndex) \cup ListedSymptoms :
           \A d \in (DOMAIN DiseaseIndex) \cup NamedDiseases :
              (EntriesFor(s, d) # {}) <=>
                  (d \in DOMAIN DiseaseIndex
                     /\ s \in Range(DiseaseIndex[d].symptoms))

\* two diseases share a symptom, and one of them has a second symptom that
\* only a later row of it lists
C27_Witness ==
    /\ pc = "done"
    /\ \E s \in DOMAIN SymptomIndex : Len(SymptomIndex[s]) = 2
    /\ \E d \in DOMAIN DiseaseIndex :
          /\ Len(DiseaseIndex[d].symptoms) = 2
          /\ \E j, k \in RowsOf(Parsed, d, Len(Tbl)) :
                /\ j < k
                /\ Range(Parsed[k].symptom_list) \ Range(Parsed[j].symptom_list) # {}
                /\ \A i \in 1..(k - 1) :
                      Range(Parsed[i].symptom_list) \subseteq Range(Parsed[j].symptom_list)

\* C28: in the written indices every Symptom Index entry of disease d has
\* the contagious and chronic of d in the Disease Index, also when the rows
\* of d disagree on them.
C28_BooleansAgree ==
    pc = "done" =>
        \A s \in DOMAIN SymptomIndex : \A j \in 1..Len(SymptomIndex[s]) :
            LET e == SymptomIndex[s][j]
            IN  e.disease \in DOMAIN DiseaseIndex =>
                  /\ e.contagious = DiseaseIndex[e.disease].contagious
                  /\ e.chronic = DiseaseIndex[e.disease].chronic

====
